---- MODULE Spec2Model ----
(***************************************************************************)
(* bitcoin_slices: zero-copy parsers over byte slices.                     *)
(*                                                                         *)
(* A slice (&[u8]) is a sequence of bytes 0..255.  &s[a..b] is             *)
(* SubSeq(s, a + 1, b).  Integers wider than 16 bits are kept as a         *)
(* sequence of 16-bit limbs, least significant first, because the u32 and  *)
(* u64 values the code decodes (0xFFFFFFFF, 0x1_0000_0000, ...) must keep  *)
(* their width: a u16 is <<l1>>, a u32 <<l1, l2>>, a u64 <<l1, l2, l3, l4>>.*)
(***************************************************************************)
EXTENDS Integers, Sequences, FiniteSets, TLC

VARIABLES input, arg_inputs, counter, pc, entry, result, again, cache, log

vars == <<input, arg_inputs, counter, pc, entry, result, again, cache, log>>

\* ------------------------------------------------------------------------
\* Bounds of the model
\* ------------------------------------------------------------------------

\* Most bytes that follow a compact size in the inputs of its decoders.
MaxTail == 1

\* Most inputs, outputs and transactions in an encoded input.
MaxIns == 2

MaxOuts == 2

MaxTxs == 2

\* The visitors tried answer Break to their k-th ControlFlow hook, k up to:
MaxBreak == 5

\* tx_outs.iter() is called up to MaxIters times on the same outputs, and
\* next() up to MaxPastEnd times after the last output
MaxIters == 2

MaxPastEnd == 2

\* The caches have a buffer of BufferSize bytes and MaxKeys keys
BufferSize == 4

MaxKeys == 6

\* The caller's log holds up to MaxInserts inserts
MaxInserts == 5

\* A usize at or above this value is represented by this value: every slice
\* of the model is shorter, so a read of that many bytes fails and a loop of
\* that many rounds ends on an error, whatever the exact value.
UsizeHuge == 1000000

\* ------------------------------------------------------------------------
\* Slices and errors
\* ------------------------------------------------------------------------

\* Slice indexing panics when the range does not lie in the slice: the
\* value is defined for ranges in bounds only, and evaluating it for any
\* other is an error.
\* &s[a..]
From(s, a) == CASE a <= Len(s) -> SubSeq(s, a + 1, Len(s))

\* &s[..b]
Upto(s, b) == CASE b <= Len(s) -> SubSeq(s, 1, b)

\* &s[a..b]
Range(s, a, b) == CASE a <= b /\ b <= Len(s) -> SubSeq(s, a + 1, b)

\* `let x = v;` followed by the rest of the block: v is computed once and
\* the rest refers to it as x
Bind(v, Rest(_)) == Rest(v)

MoreBytesNeeded == [kind |-> "MoreBytesNeeded", flag |-> 0]

UnknownSegwitFlag(b) == [kind |-> "UnknownSegwitFlag", flag |-> b]

SegwitFlagWithoutWitnesses == [kind |-> "SegwitFlagWithoutWitnesses", flag |-> 0]

NonMinimalVarInt == [kind |-> "NonMinimalVarInt", flag |-> 0]

VisitBreak == [kind |-> "VisitBreak", flag |-> 0]

\* Ok(ParseResult::new(remaining, parsed)) of a parser that takes no visitor
POk(remaining, parsed) == [ok |-> TRUE, parsed |-> parsed, remaining |-> remaining]

\* Err(e) of a parser that takes no visitor
PErr(e) == [ok |-> FALSE, err |-> e]

\* Option<T>
None == [some |-> FALSE]

Some(n) == [some |-> TRUE, get |-> n]

\* The call does not return: an index out of range, a failing expect or an
\* overflowing sum panics
Panicked == PErr([kind |-> "panic", flag |-> 0])

\* ParseResult::consumed
consumed_of(p) == Len(p.parsed.slice)

\* read_slice with `<=` for `<`
read_slice_le(from, len) ==
    IF Len(from) <= len
    THEN PErr(MoreBytesNeeded)
    ELSE POk(From(from, len), [slice |-> Upto(from, len)])

read_slice(from, len) ==
    IF Len(from) < len
    THEN PErr(MoreBytesNeeded)
    ELSE POk(From(from, len), [slice |-> Upto(from, len)])

\* ------------------------------------------------------------------------
\* Numbers
\* ------------------------------------------------------------------------

\* uNN::from_be_bytes, taken for from_le_bytes
from_be_bytes(bytes) ==
    [i \in 1..(Len(bytes) \div 2) |->
        bytes[Len(bytes) - 2 * i + 2] + 256 * bytes[Len(bytes) - 2 * i + 1]]

\* uNN::from_le_bytes for NN = 16, 32, 64 (2, 4, 8 bytes): limb i is made of
\* bytes 2i-1 (low) and 2i (high).
from_le_bytes(bytes) ==
    [i \in 1..(Len(bytes) \div 2) |-> bytes[2 * i - 1] + 256 * bytes[2 * i]]

\* uNN::to_le_bytes
to_le_bytes(w) ==
    [i \in 1..(2 * Len(w)) |->
        IF i % 2 = 1 THEN w[(i + 1) \div 2] % 256 ELSE w[i \div 2] \div 256]

\* `x as u64` of an unsigned x: zero extension to four limbs
as_u64(w) == [i \in 1..4 |-> IF i <= Len(w) THEN w[i] ELSE 0]

\* `x as u64` of a u8
u8_as_u64(x) == <<x, 0, 0, 0>>

\* a > b on u64
RECURSIVE GtFrom(_, _, _)
GtFrom(a, b, i) ==
    IF i = 0 THEN FALSE
    ELSE IF a[i] # b[i] THEN a[i] > b[i]
    ELSE GtFrom(a, b, i - 1)

u64_gt(a, b) == GtFrom(a, b, 4)

u64_ge(a, b) == ~u64_gt(b, a)

\* u16::MAX as u64, u32::MAX as u64, 0xFD
U16_MAX == <<65535, 0, 0, 0>>

U32_MAX == <<65535, 65535, 0, 0>>

U64_FD == <<253, 0, 0, 0>>

\* `n as usize` of a u64 (64-bit target: the same number), as a natural
\* number of the model.
as_usize(n) ==
    IF n[4] = 0 /\ n[3] = 0 /\ n[2] < 15 /\ n[1] + 65536 * n[2] < UsizeHuge
    THEN n[1] + 65536 * n[2]
    ELSE UsizeHuge

\* U16::parse, U32::parse, I32::parse, U64::parse (impl_number!, size bytes)
number_parse(slice, size) ==
    LET p == read_slice(slice, size)
    IN  IF ~p.ok THEN p
        ELSE POk(p.remaining, [slice |-> p.parsed.slice])

\* U8::parse
U8_parse(slice) ==
    LET p == read_slice(slice, 1)
    IN  IF ~p.ok THEN p
        ELSE POk(p.remaining, [slice |-> <<p.parsed.slice[1]>>])

\* U64::to_len
U64_to_len(u) ==
    LET n == from_le_bytes(u.slice)
    IN  IF u64_gt(n, U32_MAX)
        THEN [ok |-> TRUE, consumed |-> 9, n |-> n]
        ELSE PErr(NonMinimalVarInt)

\* U32::to_len with `>=` for `>`
U32_to_len_ge(u) ==
    LET n == as_u64(from_le_bytes(u.slice))
    IN  IF u64_ge(n, U16_MAX)
        THEN [ok |-> TRUE, consumed |-> 5, n |-> n]
        ELSE PErr(NonMinimalVarInt)

\* U32::to_len
U32_to_len(u) ==
    LET n == as_u64(from_le_bytes(u.slice))
    IN  IF u64_gt(n, U16_MAX)
        THEN [ok |-> TRUE, consumed |-> 5, n |-> n]
        ELSE PErr(NonMinimalVarInt)

\* U16::to_len
\* U16::to_len without the test of minimality
U16_to_len_any(u) ==
    LET n == as_u64(from_le_bytes(u.slice))
    IN  [ok |-> TRUE, consumed |-> 3, n |-> n]

U16_to_len(u) ==
    LET n == as_u64(from_le_bytes(u.slice))
    IN  IF u64_ge(n, U64_FD)
        THEN [ok |-> TRUE, consumed |-> 3, n |-> n]
        ELSE PErr(NonMinimalVarInt)

\* ------------------------------------------------------------------------
\* Compact size
\* ------------------------------------------------------------------------

\* `UNN::parse(&slice[1..])?.parsed_owned().to_len()?` is: the error of the
\* number, else the outcome of to_len
parse_len(slice) ==
    IF Len(slice) = 0 THEN PErr(MoreBytesNeeded)
    ELSE IF slice[1] = 255
    THEN LET p == number_parse(From(slice, 1), 8)
         IN  IF ~p.ok THEN p ELSE U64_to_len(p.parsed)
    ELSE IF slice[1] = 254
    THEN LET p == number_parse(From(slice, 1), 4)
         IN  IF ~p.ok THEN p ELSE U32_to_len(p.parsed)
    ELSE IF slice[1] = 253
    THEN LET p == number_parse(From(slice, 1), 2)
         IN  IF ~p.ok THEN p ELSE U16_to_len(p.parsed)
    ELSE [ok |-> TRUE, consumed |-> 1, n |-> u8_as_u64(slice[1])]

\* slice.get(a..b): Some(&slice[a..b]) when b <= slice.len(), else None
Get(slice, a, b) ==
    IF b <= Len(slice) THEN [some |-> TRUE, bytes |-> Range(slice, a, b)]
    ELSE [some |-> FALSE]

\* scan_len taking 0xFFFF behind 0xFE
scan_len_ge(slice, consumed) ==
    IF Len(slice) = 0 THEN [ok |-> FALSE, err |-> MoreBytesNeeded, consumed |-> consumed]
    ELSE IF slice[1] = 255 THEN
        LET g == Get(slice, 1, 9)
        IN  IF ~g.some THEN [ok |-> FALSE, err |-> MoreBytesNeeded, consumed |-> consumed]
            ELSE LET n == from_le_bytes(g.bytes)
                 IN  IF u64_gt(n, U32_MAX)
                     THEN [ok |-> TRUE, n |-> n, consumed |-> consumed + 9]
                     ELSE [ok |-> FALSE, err |-> NonMinimalVarInt, consumed |-> consumed]
    ELSE IF slice[1] = 254 THEN
        LET g == Get(slice, 1, 5)
        IN  IF ~g.some THEN [ok |-> FALSE, err |-> MoreBytesNeeded, consumed |-> consumed]
            ELSE LET n == as_u64(from_le_bytes(g.bytes))
                 IN  IF u64_ge(n, U16_MAX)
                     THEN [ok |-> TRUE, n |-> n, consumed |-> consumed + 5]
                     ELSE [ok |-> FALSE, err |-> NonMinimalVarInt, consumed |-> consumed]
    ELSE IF slice[1] = 253 THEN
        LET g == Get(slice, 1, 3)
        IN  IF ~g.some THEN [ok |-> FALSE, err |-> MoreBytesNeeded, consumed |-> consumed]
            ELSE LET n == as_u64(from_le_bytes(g.bytes))
                 IN  IF u64_ge(n, U64_FD)
                     THEN [ok |-> TRUE, n |-> n, consumed |-> consumed + 3]
                     ELSE [ok |-> FALSE, err |-> NonMinimalVarInt, consumed |-> consumed]
    ELSE [ok |-> TRUE, n |-> u8_as_u64(slice[1]), consumed |-> consumed + 1]

\* scan_len(slice, &mut consumed): the value returned and `consumed` after
\* the call; on an error `consumed` is left as it was.
scan_len(slice, consumed) ==
    IF Len(slice) = 0 THEN [ok |-> FALSE, err |-> MoreBytesNeeded, consumed |-> consumed]
    ELSE IF slice[1] = 255 THEN
        LET g == Get(slice, 1, 9)
        IN  IF ~g.some THEN [ok |-> FALSE, err |-> MoreBytesNeeded, consumed |-> consumed]
            ELSE LET n == from_le_bytes(g.bytes)
                 IN  IF u64_gt(n, U32_MAX)
                     THEN [ok |-> TRUE, n |-> n, consumed |-> consumed + 9]
                     ELSE [ok |-> FALSE, err |-> NonMinimalVarInt, consumed |-> consumed]
    ELSE IF slice[1] = 254 THEN
        LET g == Get(slice, 1, 5)
        IN  IF ~g.some THEN [ok |-> FALSE, err |-> MoreBytesNeeded, consumed |-> consumed]
            ELSE LET n == as_u64(from_le_bytes(g.bytes))
                 IN  IF u64_gt(n, U16_MAX)
                     THEN [ok |-> TRUE, n |-> n, consumed |-> consumed + 5]
                     ELSE [ok |-> FALSE, err |-> NonMinimalVarInt, consumed |-> consumed]
    ELSE IF slice[1] = 253 THEN
        LET g == Get(slice, 1, 3)
        IN  IF ~g.some THEN [ok |-> FALSE, err |-> MoreBytesNeeded, consumed |-> consumed]
            ELSE LET n == as_u64(from_le_bytes(g.bytes))
                 IN  IF u64_ge(n, U64_FD)
                     THEN [ok |-> TRUE, n |-> n, consumed |-> consumed + 3]
                     ELSE [ok |-> FALSE, err |-> NonMinimalVarInt, consumed |-> consumed]
    ELSE [ok |-> TRUE, n |-> u8_as_u64(slice[1]), consumed |-> consumed + 1]

\* ------------------------------------------------------------------------
\* Visitor
\* ------------------------------------------------------------------------

\* A visitor is what the parse can observe of an implementation of the
\* Visitor trait: which of its ControlFlow hooks answers Break.  breakAt = k
\* answers Break to the k-th call of a ControlFlow hook and Continue to the
\* others (0: Continue to all).  calls records every hook invocation.
Visitor(k) == [breakAt |-> k, asked |-> 0, calls |-> <<>>]

\* EmptyVisitor: every hook is the default one
EmptyVisitor == Visitor(0)

\* A hook returning () whose return is taken for an answer
Notify_answer(visit, hook, index, arg) ==
    [visit EXCEPT !.calls = Append(@, [hook |-> hook, index |-> index, arg |-> arg]),
                  !.asked = @ + 1]

\* A hook returning (): visit_block_begin, visit_tx_ins, visit_tx_outs,
\* visit_witness_total_element, visit_witness_element, visit_witness_end
Notify(visit, hook, index, arg) ==
    [visit EXCEPT !.calls = Append(@, [hook |-> hook, index |-> index, arg |-> arg])]

\* A hook returning ControlFlow<()>: visit_block_header, visit_transaction,
\* visit_tx_in, visit_tx_out, visit_witness
Ask(visit, hook, index, arg) ==
    [visit EXCEPT !.calls = Append(@, [hook |-> hook, index |-> index, arg |-> arg]),
                  !.asked = @ + 1]

\* The answer of the hook just asked was ControlFlow::Break
Breaks(visit) == visit.asked = visit.breakAt

VOk(remaining, parsed, visit) ==
    [ok |-> TRUE, parsed |-> parsed, remaining |-> remaining, v |-> visit]

VErr(e, visit) == [ok |-> FALSE, err |-> e, v |-> visit]

\* impl Parse for T: Visit: the result of visit with the visitor dropped
Parsed(r) == IF r.ok THEN POk(r.remaining, r.parsed) ELSE PErr(r.err)

\* ------------------------------------------------------------------------
\* Script, OutPoint, TxOut, TxIn
\* ------------------------------------------------------------------------

\* Script::parse with the view cut at &slice[..n]
Script_parse_short(slice) ==
    Bind(parse_len(slice), LAMBDA l :
        IF ~l.ok THEN PErr(l.err)
        ELSE Bind(as_usize(l.n), LAMBDA n :
             Bind(From(slice, l.consumed), LAMBDA remaining :
             Bind(read_slice(remaining, n), LAMBDA s :
                 IF ~s.ok THEN s
                 ELSE POk(s.remaining, [slice |-> Upto(slice, n), from |-> l.consumed])))))

\* Script::parse indexing &slice[..consumed + n] without having read n bytes
Script_parse_unread(slice) ==
    Bind(parse_len(slice), LAMBDA l :
        IF ~l.ok THEN PErr(l.err)
        ELSE Bind(as_usize(l.n), LAMBDA n :
             IF l.consumed > Len(slice) THEN Panicked
             ELSE IF l.consumed + n > Len(slice) THEN Panicked
             ELSE POk(From(slice, l.consumed + n),
                      [slice |-> Upto(slice, l.consumed + n), from |-> l.consumed])))

\* Script::parse. &slice[consumed..] panics when consumed > slice.len();
\* consumed + n overflows or &slice[..consumed + n] panics when the sum is
\* more than slice.len().
Script_parse(slice) ==
    Bind(parse_len(slice), LAMBDA l :
        IF ~l.ok THEN PErr(l.err)
        ELSE Bind(as_usize(l.n), LAMBDA n :
             IF l.consumed > Len(slice) THEN Panicked
             ELSE Bind(From(slice, l.consumed), LAMBDA remaining :
                  Bind(read_slice(remaining, n), LAMBDA s :
                      IF ~s.ok THEN s
                      ELSE IF l.consumed + n > Len(slice) THEN Panicked
                      ELSE POk(s.remaining,
                               [slice |-> Upto(slice, l.consumed + n),
                                from |-> l.consumed])))))

OutPoint_parse(slice) ==
    Bind(read_slice(slice, 36), LAMBDA outpoint :
        IF ~outpoint.ok THEN outpoint
        ELSE POk(outpoint.remaining, [slice |-> outpoint.parsed.slice]))

TxOut_parse(slice) ==
    Bind(number_parse(slice, 8), LAMBDA value :
        IF ~value.ok THEN value
        ELSE Bind(Script_parse(value.remaining), LAMBDA script :
                 IF ~script.ok THEN script
                 ELSE LET consumed == consumed_of(value) + consumed_of(script)
                      IN  POk(script.remaining,
                              [slice |-> Upto(slice, consumed),
                               value |-> from_le_bytes(value.parsed.slice),
                               script_pubkey |-> script.parsed])))

\* TxIn = OutPoint, Script (scriptSig), u32 sequence
TxIn_parse(slice) ==
    Bind(OutPoint_parse(slice), LAMBDA out_point :
        IF ~out_point.ok THEN out_point
        ELSE Bind(Script_parse(out_point.remaining), LAMBDA script :
                 IF ~script.ok THEN script
                 ELSE Bind(number_parse(script.remaining, 4), LAMBDA sequence :
                          IF ~sequence.ok THEN sequence
                          ELSE LET consumed == consumed_of(out_point) + consumed_of(script) + 4
                               IN  POk(From(slice, consumed),
                                       [slice |-> Upto(slice, consumed),
                                        prevout |-> out_point.parsed,
                                        script_sig |-> script.parsed,
                                        sequence |-> from_le_bytes(sequence.parsed.slice)]))))

\* ------------------------------------------------------------------------
\* TxIns, TxOuts
\* ------------------------------------------------------------------------

\* for i in 0..total_inputs { ... } of TxIns::visit, from round i on
RECURSIVE TxIns_loop(_, _, _, _, _)
TxIns_loop(remaining, consumed, i, total, visit) ==
    IF i >= total THEN [ok |-> TRUE, consumed |-> consumed, v |-> visit]
    ELSE Bind(TxIn_parse(remaining), LAMBDA tx_in :
             IF ~tx_in.ok THEN VErr(tx_in.err, visit)
             ELSE Bind(Ask(visit, "visit_tx_in", i, tx_in.parsed), LAMBDA v1 :
                      IF Breaks(v1) THEN VErr(VisitBreak, v1)
                      ELSE TxIns_loop(tx_in.remaining, consumed + consumed_of(tx_in),
                                      i + 1, total, v1)))

TxIns_visit(slice, visit) ==
    Bind(parse_len(slice), LAMBDA l :
        IF ~l.ok THEN VErr(l.err, visit)
        ELSE Bind(as_usize(l.n), LAMBDA total_inputs :
             Bind(Notify(visit, "visit_tx_ins", total_inputs, <<>>), LAMBDA v1 :
             Bind(TxIns_loop(From(slice, l.consumed), l.consumed, 0, total_inputs, v1), LAMBDA loop :
                 IF ~loop.ok THEN loop
                 ELSE VOk(From(slice, loop.consumed),
                          [slice |-> Upto(slice, loop.consumed), n |-> total_inputs],
                          loop.v)))))

\* TxIns::is_empty
TxIns_is_empty(t) == t.slice[1] = 0

\* for i in 0..total_outputs { ... } of TxOuts::visit, from round i on
RECURSIVE TxOuts_loop_from1(_, _, _, _, _)
RECURSIVE TxOuts_loop(_, _, _, _, _)
\* The loop of TxOuts::visit numbering the outputs from 1
TxOuts_loop_from1(remaining, consumed, i, total, visit) ==
    IF i >= total THEN [ok |-> TRUE, consumed |-> consumed, v |-> visit]
    ELSE Bind(TxOut_parse(remaining), LAMBDA tx_out :
             IF ~tx_out.ok THEN VErr(tx_out.err, visit)
             ELSE Bind(Ask(visit, "visit_tx_out", i + 1, tx_out.parsed), LAMBDA v1 :
                      IF Breaks(v1) THEN VErr(VisitBreak, v1)
                      ELSE TxOuts_loop_from1(tx_out.remaining,
                                             consumed + consumed_of(tx_out),
                                             i + 1, total, v1)))

TxOuts_loop(remaining, consumed, i, total, visit) ==
    IF i >= total THEN [ok |-> TRUE, consumed |-> consumed, v |-> visit]
    ELSE Bind(TxOut_parse(remaining), LAMBDA tx_out :
             IF ~tx_out.ok THEN VErr(tx_out.err, visit)
             ELSE Bind(Ask(visit, "visit_tx_out", i, tx_out.parsed), LAMBDA v1 :
                      IF Breaks(v1) THEN VErr(VisitBreak, v1)
                      ELSE TxOuts_loop(tx_out.remaining, consumed + consumed_of(tx_out),
                                       i + 1, total, v1)))

TxOuts_visit(slice, visit) ==
    Bind(parse_len(slice), LAMBDA l :
        IF ~l.ok THEN VErr(l.err, visit)
        ELSE Bind(as_usize(l.n), LAMBDA total_outputs :
             Bind(Notify(visit, "visit_tx_outs", total_outputs, <<>>), LAMBDA v1 :
             Bind(TxOuts_loop(From(slice, l.consumed), l.consumed, 0, total_outputs, v1), LAMBDA loop :
                 IF ~loop.ok THEN loop
                 ELSE VOk(From(slice, loop.consumed),
                          [slice |-> Upto(slice, loop.consumed), n |-> total_outputs],
                          loop.v)))))

\* TxOuts::iter starting at the count
TxOuts_iter_count(tx_outs) ==
    Bind(parse_len(tx_outs.slice), LAMBDA len :
        [elements |-> as_usize(len.n), offset |-> 0, tx_outs |-> tx_outs])

\* TxOuts::iter; parse_len is `expect`ed to succeed
TxOuts_iter(tx_outs) ==
    Bind(parse_len(tx_outs.slice), LAMBDA len :
        [elements |-> as_usize(len.n), offset |-> len.consumed, tx_outs |-> tx_outs])

\* The `expect` of TxOutIterator::next found an Err
Panic == [some |-> FALSE, panic |-> TRUE]

\* Option<TxOut>
NoItem == [some |-> FALSE, panic |-> FALSE]

Item(tx_out) == [some |-> TRUE, panic |-> FALSE, get |-> tx_out]

\* TxOutIterator::next: the iterator after the call and what the call returns
TxOutIterator_next(it) ==
    IF it.offset >= Len(it.tx_outs.slice)
    THEN [it |-> it, item |-> NoItem]
    ELSE Bind(TxOut_parse(From(it.tx_outs.slice, it.offset)), LAMBDA tx_out :
             IF ~tx_out.ok THEN [it |-> it, item |-> Panic]
             ELSE [it |-> [it EXCEPT !.offset = @ + consumed_of(tx_out)],
                   item |-> Item(tx_out.parsed)])

\* TxOutIterator::size_hint: (lower, upper)
TxOutIterator_size_hint(it) == <<it.elements, Some(it.elements)>>

\* ------------------------------------------------------------------------
\* Witness, Witnesses
\* ------------------------------------------------------------------------

\* The elements of one witness stack, from element i on: each is a compact
\* size followed by that many bytes, reported by visit_witness_element.
RECURSIVE Witness_loop(_, _, _, _, _)
Witness_loop(remaining, consumed, i, total, visit) ==
    IF i >= total THEN [ok |-> TRUE, consumed |-> consumed, v |-> visit]
    ELSE Bind(parse_len(remaining), LAMBDA l :
             IF ~l.ok THEN VErr(l.err, visit)
             ELSE Bind(read_slice(From(remaining, l.consumed), as_usize(l.n)), LAMBDA sl :
                      IF ~sl.ok THEN VErr(sl.err, visit)
                      ELSE Witness_loop(sl.remaining,
                                        consumed + l.consumed + as_usize(l.n),
                                        i + 1, total,
                                        Notify(visit, "visit_witness_element", i,
                                               sl.parsed.slice))))

\* Witness = compact-size element count k, then k length-prefixed elements
Witness_visit(slice, visit) ==
    Bind(parse_len(slice), LAMBDA l :
        IF ~l.ok THEN VErr(l.err, visit)
        ELSE Bind(as_usize(l.n), LAMBDA n :
             Bind(Notify(visit, "visit_witness_total_element", n, <<>>), LAMBDA v1 :
             Bind(Witness_loop(From(slice, l.consumed), l.consumed, 0, n, v1), LAMBDA loop :
                 IF ~loop.ok THEN loop
                 ELSE VOk(From(slice, loop.consumed),
                          [slice |-> Upto(slice, loop.consumed), n |-> n],
                          loop.v)))))

\* Witness::is_empty
Witness_is_empty(w) == w.n = 0

\* for i in 0..total_inputs { ... } of Witnesses::visit, from round i on
RECURSIVE Witnesses_loop_nobreak(_, _, _, _, _, _)
RECURSIVE Witnesses_loop(_, _, _, _, _, _)
RECURSIVE Witnesses_loop_noend(_, _, _, _, _, _)
RECURSIVE Witnesses_loop_last(_, _, _, _, _, _)
\* The loop of Witnesses::visit with the answer of visit_witness dropped
Witnesses_loop_nobreak(remaining, consumed, all_empty, i, total, visit) ==
    IF i >= total
    THEN [ok |-> TRUE, consumed |-> consumed, all_empty |-> all_empty, v |-> visit]
    ELSE Bind(Ask(visit, "visit_witness", i, <<>>), LAMBDA v1 :
         Bind(Witness_visit(remaining, v1), LAMBDA witness :
             IF ~witness.ok THEN witness
             ELSE Witnesses_loop_nobreak(witness.remaining,
                                         consumed + consumed_of(witness),
                                         IF ~Witness_is_empty(witness.parsed)
                                         THEN FALSE ELSE all_empty,
                                         i + 1, total,
                                         Notify(witness.v, "visit_witness_end", 0, <<>>))))

\* The loop of Witnesses::visit with all_empty following the last stack
Witnesses_loop_last(remaining, consumed, all_empty, i, total, visit) ==
    IF i >= total
    THEN [ok |-> TRUE, consumed |-> consumed, all_empty |-> all_empty, v |-> visit]
    ELSE Bind(Ask(visit, "visit_witness", i, <<>>), LAMBDA v1 :
             IF Breaks(v1) THEN VErr(VisitBreak, v1)
             ELSE Bind(Witness_visit(remaining, v1), LAMBDA witness :
                      IF ~witness.ok THEN witness
                      ELSE Witnesses_loop_last(witness.remaining,
                                          consumed + consumed_of(witness),
                                          Witness_is_empty(witness.parsed),
                                          i + 1, total,
                                          Notify(witness.v, "visit_witness_end", 0, <<>>))))

\* The loop of Witnesses::visit with no visit_witness_end for an empty stack
Witnesses_loop_noend(remaining, consumed, all_empty, i, total, visit) ==
    IF i >= total
    THEN [ok |-> TRUE, consumed |-> consumed, all_empty |-> all_empty, v |-> visit]
    ELSE Bind(Ask(visit, "visit_witness", i, <<>>), LAMBDA v1 :
             IF Breaks(v1) THEN VErr(VisitBreak, v1)
             ELSE Bind(Witness_visit(remaining, v1), LAMBDA witness :
                      IF ~witness.ok THEN witness
                      ELSE Witnesses_loop_noend(witness.remaining,
                                          consumed + consumed_of(witness),
                                          IF ~Witness_is_empty(witness.parsed)
                                          THEN FALSE ELSE all_empty,
                                          i + 1, total,
                                          IF Witness_is_empty(witness.parsed) THEN witness.v
                                          ELSE Notify(witness.v, "visit_witness_end",
                                                      0, <<>>))))

Witnesses_loop(remaining, consumed, all_empty, i, total, visit) ==
    IF i >= total
    THEN [ok |-> TRUE, consumed |-> consumed, all_empty |-> all_empty, v |-> visit]
    ELSE Bind(Ask(visit, "visit_witness", i, <<>>), LAMBDA v1 :
             IF Breaks(v1) THEN VErr(VisitBreak, v1)
             ELSE Bind(Witness_visit(remaining, v1), LAMBDA witness :
                      IF ~witness.ok THEN witness
                      ELSE Witnesses_loop(witness.remaining,
                                          consumed + consumed_of(witness),
                                          IF ~Witness_is_empty(witness.parsed)
                                          THEN FALSE ELSE all_empty,
                                          i + 1, total,
                                          Notify(witness.v, "visit_witness_end", 0, <<>>))))

Witnesses_visit(slice, total_inputs, visit) ==
    Bind(Witnesses_loop(slice, 0, TRUE, 0, total_inputs, visit), LAMBDA loop :
        IF ~loop.ok THEN loop
        ELSE VOk(From(slice, loop.consumed),
                 [slice |-> Upto(slice, loop.consumed), all_empty |-> loop.all_empty],
                 loop.v))

Witnesses_parse(slice, total_inputs) ==
    Parsed(Witnesses_visit(slice, total_inputs, EmptyVisitor))

\* ------------------------------------------------------------------------
\* Transaction
\* ------------------------------------------------------------------------

\* `x as u32` of a usize: the two low limbs
as_u32(x) == (x % 65536) + 65536 * ((x \div 65536) % 65536)

\* NonZeroU32::new
NonZeroU32_new(n) == IF n = 0 THEN None ELSE Some(n)

\* match visit.visit_transaction(&tx) { Continue => Ok(..), Break => Err(VisitBreak) }
Transaction_done(slice, consumed, tx, visit) ==
    Bind(Ask(visit, "visit_transaction", 0, tx), LAMBDA v1 :
        IF Breaks(v1) THEN VErr(VisitBreak, v1)
        ELSE VOk(From(slice, consumed), tx, v1))

\* The segwit branch asking for a witness also when there is no input
Transaction_segwit_strict(slice, rest, visit) ==
    Bind(TxIns_visit(rest, visit), LAMBDA inputs :
        IF ~inputs.ok THEN inputs
        ELSE Bind(TxOuts_visit(inputs.remaining, inputs.v), LAMBDA outputs :
                 IF ~outputs.ok THEN outputs
                 ELSE Bind(Witnesses_visit(outputs.remaining, inputs.parsed.n, outputs.v),
                           LAMBDA witnesses :
                          IF ~witnesses.ok THEN witnesses
                          ELSE IF witnesses.parsed.all_empty
                          THEN VErr(SegwitFlagWithoutWitnesses, witnesses.v)
                          ELSE Bind(number_parse(witnesses.remaining, 4), LAMBDA locktime :
                                   IF ~locktime.ok THEN VErr(locktime.err, witnesses.v)
                                   ELSE LET consumed == 10 + consumed_of(inputs)
                                                           + consumed_of(outputs)
                                                           + consumed_of(witnesses)
                                            inputs_outputs_len ==
                                                Len(inputs.parsed.slice)
                                                    + Len(outputs.parsed.slice)
                                        IN  Transaction_done(slice, consumed,
                                                [slice |-> Upto(slice, consumed),
                                                 inputs_outputs_len |->
                                                     NonZeroU32_new(as_u32(inputs_outputs_len))],
                                                witnesses.v)))))

\* The segwit branch with the witness check moved behind the locktime
Transaction_segwit_late(slice, rest, visit) ==
    Bind(TxIns_visit(rest, visit), LAMBDA inputs :
        IF ~inputs.ok THEN inputs
        ELSE Bind(TxOuts_visit(inputs.remaining, inputs.v), LAMBDA outputs :
                 IF ~outputs.ok THEN outputs
                 ELSE Bind(Witnesses_visit(outputs.remaining, inputs.parsed.n, outputs.v),
                           LAMBDA witnesses :
                          IF ~witnesses.ok THEN witnesses
                          ELSE Bind(number_parse(witnesses.remaining, 4), LAMBDA locktime :
                                   IF ~locktime.ok THEN VErr(locktime.err, witnesses.v)
                                   ELSE IF ~TxIns_is_empty(inputs.parsed)
                                           /\ witnesses.parsed.all_empty
                                   THEN VErr(SegwitFlagWithoutWitnesses, witnesses.v)
                                   ELSE LET consumed == 10 + consumed_of(inputs)
                                                           + consumed_of(outputs)
                                                           + consumed_of(witnesses)
                                            inputs_outputs_len ==
                                                Len(inputs.parsed.slice)
                                                    + Len(outputs.parsed.slice)
                                        IN  Transaction_done(slice, consumed,
                                                [slice |-> Upto(slice, consumed),
                                                 inputs_outputs_len |->
                                                     NonZeroU32_new(as_u32(inputs_outputs_len))],
                                                witnesses.v)))))

\* The branch of Transaction::visit taken when the segwit flag is 1
Transaction_segwit(slice, rest, visit) ==
    Bind(TxIns_visit(rest, visit), LAMBDA inputs :
        IF ~inputs.ok THEN inputs
        ELSE Bind(TxOuts_visit(inputs.remaining, inputs.v), LAMBDA outputs :
                 IF ~outputs.ok THEN outputs
                 ELSE Bind(Witnesses_visit(outputs.remaining, inputs.parsed.n, outputs.v),
                           LAMBDA witnesses :
                          IF ~witnesses.ok THEN witnesses
                          ELSE IF ~TxIns_is_empty(inputs.parsed) /\ witnesses.parsed.all_empty
                          THEN VErr(SegwitFlagWithoutWitnesses, witnesses.v)
                          ELSE Bind(number_parse(witnesses.remaining, 4), LAMBDA locktime :
                                   IF ~locktime.ok THEN VErr(locktime.err, witnesses.v)
                                   ELSE LET consumed == 10 + consumed_of(inputs)
                                                           + consumed_of(outputs)
                                                           + consumed_of(witnesses)
                                            inputs_outputs_len ==
                                                Len(inputs.parsed.slice)
                                                    + Len(outputs.parsed.slice)
                                        IN  Transaction_done(slice, consumed,
                                                [slice |-> Upto(slice, consumed),
                                                 inputs_outputs_len |->
                                                     NonZeroU32_new(as_u32(inputs_outputs_len))],
                                                witnesses.v)))))

\* The branch for inputs that are not empty, with visit_transaction called
\* on the bytes before the locktime, and the locktime read after it
Transaction_legacy_early(slice, inputs) ==
    Bind(TxOuts_visit(inputs.remaining, inputs.v), LAMBDA outputs :
        IF ~outputs.ok THEN outputs
        ELSE Bind(consumed_of(inputs) + consumed_of(outputs) + 4, LAMBDA consumed :
             Bind([slice |-> Upto(slice, consumed), inputs_outputs_len |-> None], LAMBDA tx :
             Bind(Ask(outputs.v, "visit_transaction", 0, tx), LAMBDA v1 :
                 IF Breaks(v1) THEN VErr(VisitBreak, v1)
                 ELSE Bind(number_parse(outputs.remaining, 4), LAMBDA locktime :
                          IF ~locktime.ok THEN VErr(locktime.err, v1)
                          ELSE VOk(locktime.remaining, tx, v1))))))

\* The branch of Transaction::visit taken when the inputs are not empty
Transaction_legacy(slice, inputs) ==
    Bind(TxOuts_visit(inputs.remaining, inputs.v), LAMBDA outputs :
        IF ~outputs.ok THEN outputs
        ELSE Bind(number_parse(outputs.remaining, 4), LAMBDA locktime :
                 IF ~locktime.ok THEN VErr(locktime.err, outputs.v)
                 ELSE LET consumed == consumed_of(inputs) + consumed_of(outputs) + 8
                      IN  Transaction_done(slice, consumed,
                              [slice |-> Upto(slice, consumed), inputs_outputs_len |-> None],
                              outputs.v)))

\* Transaction::visit taking every flag but 0 for the segwit flag
Transaction_visit_anyflag(slice, visit) ==
    Bind(number_parse(slice, 4), LAMBDA version :
        IF ~version.ok THEN VErr(version.err, visit)
        ELSE Bind(TxIns_visit(version.remaining, visit), LAMBDA inputs :
                 IF ~inputs.ok THEN inputs
                 ELSE IF TxIns_is_empty(inputs.parsed)
                 THEN Bind(U8_parse(inputs.remaining), LAMBDA segwit_flag :
                          IF ~segwit_flag.ok THEN VErr(segwit_flag.err, inputs.v)
                          ELSE LET segwit_flag_u8 == segwit_flag.parsed.slice[1]
                               IN  IF segwit_flag_u8 # 0
                                   THEN Transaction_segwit(slice, segwit_flag.remaining,
                                                           inputs.v)
                                   ELSE VErr(UnknownSegwitFlag(segwit_flag_u8), inputs.v))
                 ELSE Transaction_legacy(slice, inputs)))

\* Transaction::visit taking a missing flag byte for a flag of 0
Transaction_visit_noflag(slice, visit) ==
    Bind(number_parse(slice, 4), LAMBDA version :
        IF ~version.ok THEN VErr(version.err, visit)
        ELSE Bind(TxIns_visit(version.remaining, visit), LAMBDA inputs :
                 IF ~inputs.ok THEN inputs
                 ELSE IF TxIns_is_empty(inputs.parsed)
                 THEN Bind(U8_parse(inputs.remaining), LAMBDA segwit_flag :
                          IF ~segwit_flag.ok THEN VErr(UnknownSegwitFlag(0), inputs.v)
                          ELSE LET segwit_flag_u8 == segwit_flag.parsed.slice[1]
                               IN  IF segwit_flag_u8 = 1
                                   THEN Transaction_segwit(slice, segwit_flag.remaining,
                                                           inputs.v)
                                   ELSE VErr(UnknownSegwitFlag(segwit_flag_u8), inputs.v))
                 ELSE Transaction_legacy(slice, inputs)))

Transaction_visit(slice, visit) ==
    Bind(number_parse(slice, 4), LAMBDA version :
        IF ~version.ok THEN VErr(version.err, visit)
        ELSE Bind(TxIns_visit(version.remaining, visit), LAMBDA inputs :
                 IF ~inputs.ok THEN inputs
                 ELSE IF TxIns_is_empty(inputs.parsed)
                 THEN Bind(U8_parse(inputs.remaining), LAMBDA segwit_flag :
                          IF ~segwit_flag.ok THEN VErr(segwit_flag.err, inputs.v)
                          ELSE LET segwit_flag_u8 == segwit_flag.parsed.slice[1]
                               IN  IF segwit_flag_u8 = 1
                                   THEN Transaction_segwit(slice, segwit_flag.remaining,
                                                           inputs.v)
                                   ELSE VErr(UnknownSegwitFlag(segwit_flag_u8), inputs.v))
                 ELSE Transaction_legacy(slice, inputs)))

\* txid_preimage with the marker and the flag left in the middle range
txid_preimage_marker(tx) ==
    IF tx.inputs_outputs_len.some
    THEN <<Upto(tx.slice, 4),
           Range(tx.slice, 4, tx.inputs_outputs_len.get + 4),
           From(tx.slice, Len(tx.slice) - 4)>>
    ELSE <<tx.slice, <<>>, <<>>>>

\* Transaction::txid_preimage
txid_preimage(tx) ==
    IF tx.inputs_outputs_len.some
    THEN <<Upto(tx.slice, 4),
           Range(tx.slice, 6, tx.inputs_outputs_len.get + 6),
           From(tx.slice, Len(tx.slice) - 4)>>
    ELSE <<tx.slice, <<>>, <<>>>>

\* weight counting the inputs and outputs only in the base size
weight_bare(tx) ==
    IF tx.inputs_outputs_len.some
    THEN tx.inputs_outputs_len.get * 3 + Len(tx.slice)
    ELSE Len(tx.slice) * 4

\* Transaction::weight; total_size is self.as_ref().len()
weight(tx) ==
    IF tx.inputs_outputs_len.some
    THEN (tx.inputs_outputs_len.get + 4 + 4) * 3 + Len(tx.slice)
    ELSE Len(tx.slice) * 4

\* ------------------------------------------------------------------------
\* BlockHeader, Block
\* ------------------------------------------------------------------------

\* i32::from_le_bytes
i32_from_le_bytes(b) ==
    b[1] + 256 * b[2] + 65536 * b[3]
        + 16777216 * (IF b[4] >= 128 THEN b[4] - 256 ELSE b[4])

BlockHeader_visit(slice, visit) ==
    Bind(number_parse(slice, 4), LAMBDA version :
        IF ~version.ok THEN VErr(version.err, visit)
        ELSE Bind(read_slice(version.remaining, 64), LAMBDA hashes :
                 IF ~hashes.ok THEN VErr(hashes.err, visit)
                 ELSE Bind(number_parse(hashes.remaining, 4), LAMBDA time :
                          IF ~time.ok THEN VErr(time.err, visit)
                          ELSE Bind(number_parse(time.remaining, 4), LAMBDA bits :
                                   IF ~bits.ok THEN VErr(bits.err, visit)
                                   ELSE Bind(number_parse(bits.remaining, 4), LAMBDA nonce :
                                            IF ~nonce.ok THEN VErr(nonce.err, visit)
                                            ELSE Bind([slice |-> Upto(slice, 80),
                                                       version |-> i32_from_le_bytes(version.parsed.slice),
                                                       time |-> from_le_bytes(time.parsed.slice),
                                                       bits |-> from_le_bytes(bits.parsed.slice),
                                                       nonce |-> from_le_bytes(nonce.parsed.slice)], LAMBDA header :
                                                 Bind(Ask(visit, "visit_block_header", 0, header), LAMBDA v1 :
                                                     IF Breaks(v1) THEN VErr(VisitBreak, v1)
                                                     ELSE VOk(nonce.remaining, header, v1))))))))

\* prev_blockhash taken from the start of the header
prev_blockhash_start(header) == Range(header.slice, 0, 32)

\* BlockHeader::prev_blockhash
prev_blockhash(header) == Range(header.slice, 4, 36)

\* BlockHeader::merkle_root
merkle_root(header) == Range(header.slice, 36, 68)

\* BlockHeader::block_hash_preimage
block_hash_preimage(header) == header.slice

\* for _ in 0..total_txs { ... } of Block::visit, from round i on
RECURSIVE Block_loop_partial(_, _, _, _, _)
RECURSIVE Block_loop(_, _, _, _, _)
Block_loop_partial(remaining, consumed, i, total, visit) ==
    IF i >= total THEN [ok |-> TRUE, consumed |-> consumed, v |-> visit]
    ELSE Bind(Transaction_visit(remaining, visit), LAMBDA tx :
             IF ~tx.ok THEN [ok |-> TRUE, consumed |-> consumed, v |-> tx.v]
             ELSE Block_loop_partial(tx.remaining, consumed + consumed_of(tx), i + 1,
                                     total, tx.v))

Block_loop(remaining, consumed, i, total, visit) ==
    IF i >= total THEN [ok |-> TRUE, consumed |-> consumed, v |-> visit]
    ELSE Bind(Transaction_visit(remaining, visit), LAMBDA tx :
             IF ~tx.ok THEN tx
             ELSE Block_loop(tx.remaining, consumed + consumed_of(tx), i + 1, total, tx.v))

\* Block::visit calling visit_block_begin after the transactions
Block_visit_late_begin(slice, visit) ==
    Bind(BlockHeader_visit(slice, visit), LAMBDA header :
        IF ~header.ok THEN header
        ELSE Bind(parse_len(header.remaining), LAMBDA l :
                 IF ~l.ok THEN VErr(l.err, header.v)
                 ELSE Bind(l.consumed + 80, LAMBDA consumed :
                      Bind(as_usize(l.n), LAMBDA total_txs :
                      Bind(Block_loop(From(slice, consumed), consumed, 0, total_txs, header.v),
                           LAMBDA loop :
                          IF ~loop.ok THEN loop
                          ELSE VOk(From(slice, loop.consumed),
                                   [slice |-> Upto(slice, loop.consumed),
                                    header |-> header.parsed,
                                    total_txs |-> total_txs],
                                   Notify(loop.v, "visit_block_begin", total_txs, <<>>)))))))

Block_visit(slice, visit) ==
    Bind(BlockHeader_visit(slice, visit), LAMBDA header :
        IF ~header.ok THEN header
        ELSE Bind(parse_len(header.remaining), LAMBDA l :
                 IF ~l.ok THEN VErr(l.err, header.v)
                 ELSE Bind(l.consumed + 80, LAMBDA consumed :
                      Bind(as_usize(l.n), LAMBDA total_txs :
                      Bind(Notify(header.v, "visit_block_begin", total_txs, <<>>), LAMBDA v1 :
                      Bind(Block_loop(From(slice, consumed), consumed, 0, total_txs, v1), LAMBDA loop :
                          IF ~loop.ok THEN loop
                          ELSE VOk(From(slice, loop.consumed),
                                   [slice |-> Upto(slice, loop.consumed),
                                    header |-> header.parsed,
                                    total_txs |-> total_txs],
                                   loop.v)))))))

\* ------------------------------------------------------------------------
\* SliceCache
\* ------------------------------------------------------------------------

ValueLargerThanBuffer == [kind |-> "ValueLargerThanBuffer"]

ValueAlreadyPresent == [kind |-> "ValueAlreadyPresent"]

\* Range::from_begin_end
Range_from_begin_end(begin, end) ==
    IF end > begin THEN Some([begin |-> begin, end |-> end]) ELSE None

\* Range::from_begin_len
Range_from_begin_len(begin, len) == [begin |-> begin, end |-> begin + len]

\* Range::overlaps with `<=` for `<`: ranges that touch overlap
Range_overlaps_le(self, other) == self.begin <= other.end /\ other.begin <= self.end

\* Range::overlaps
Range_overlaps(self, other) == self.begin < other.end /\ other.begin < self.end

\* The keys of the caches
Keys == 1..MaxKeys

\* SliceCache::new(size): indexes maps a key to its range, or to None when the
\* key is not in the map; insertions has its front first and its back last
SliceCache_new(size) ==
    [buffer |-> [i \in 1..size |-> 0],
     free_pointer |-> 0,
     indexes |-> [k \in Keys |-> None],
     insertions |-> <<>>,
     full |-> FALSE]

\* SliceCache::remove_range: the cache after the call and the number returned
RECURSIVE SliceCache_remove_range(_, _)
SliceCache_remove_range(self, range_to_remove) ==
    IF self.insertions = <<>> THEN [cache |-> self, removed |-> 0]
    ELSE Bind(self.insertions[Len(self.insertions)], LAMBDA back :
             IF Range_overlaps(range_to_remove, self.indexes[back].get)
             THEN Bind(SliceCache_remove_range(
                           [self EXCEPT !.indexes[back] = None,
                                        !.insertions = Upto(@, Len(@) - 1)],
                           range_to_remove), LAMBDA rest :
                      [cache |-> rest.cache, removed |-> rest.removed + 1])
             ELSE [cache |-> self, removed |-> 0])

\* SliceCache::insert when the value does not fit behind free_pointer: the
\* entries of the tail are removed and free_pointer goes back to 0
SliceCache_insert_restart(self, value) ==
    IF Len(value) + self.free_pointer > Len(self.buffer)
    THEN Bind(Range_from_begin_end(self.free_pointer, Len(self.buffer)), LAMBDA range :
         Bind(IF range.some THEN SliceCache_remove_range(self, range.get)
              ELSE [cache |-> self, removed |-> 0], LAMBDA tail :
             [cache |-> [tail.cache EXCEPT !.free_pointer = 0, !.full = TRUE],
              removed |-> tail.removed]))
    ELSE [cache |-> self, removed |-> 0]

\* The copy and the new entry, with the key pushed to the back of insertions
SliceCache_insert_write_back(self, key, value) ==
    Bind(self.free_pointer, LAMBDA begin :
    Bind(begin + Len(value), LAMBDA end :
        [self EXCEPT !.buffer = [i \in 1..Len(self.buffer) |->
                                    IF begin < i /\ i <= end THEN value[i - begin]
                                    ELSE self.buffer[i]],
                     !.free_pointer = end,
                     !.indexes[key] = Some(Range_from_begin_len(begin, Len(value))),
                     !.insertions = @ \o <<key>>]))

\* SliceCache::insert: the copy of the value into the buffer at free_pointer
\* and the new entry of indexes and insertions
SliceCache_insert_write(self, key, value) ==
    Bind(self.free_pointer, LAMBDA begin :
    Bind(begin + Len(value), LAMBDA end :
        [self EXCEPT !.buffer = [i \in 1..Len(self.buffer) |->
                                    IF begin < i /\ i <= end THEN value[i - begin]
                                    ELSE self.buffer[i]],
                     !.free_pointer = end,
                     !.indexes[key] = Some(Range_from_begin_len(begin, Len(value))),
                     !.insertions = <<key>> \o @]))

\* The result of SliceCache::insert
Inserted(removed) == [ok |-> TRUE, removed |-> removed]

NotInserted(e) == [ok |-> FALSE, err |-> e]

\* SliceCache::insert comparing the value with the buffer after the restart
SliceCache_insert_late(self, key, value) ==
    IF self.indexes[key].some THEN [cache |-> self, ret |-> NotInserted(ValueAlreadyPresent)]
    ELSE Bind(SliceCache_insert_restart(self, value), LAMBDA restart :
         IF Len(value) > Len(self.buffer)
         THEN [cache |-> restart.cache, ret |-> NotInserted(ValueLargerThanBuffer)]
         ELSE
         Bind(restart.cache.free_pointer, LAMBDA begin :
         Bind(SliceCache_insert_write(restart.cache, key, value), LAMBDA written :
             IF Len(written.insertions) > 1
             THEN Bind(SliceCache_remove_range(
                           written,
                           Range_from_begin_len(begin, Len(value))), LAMBDA over :
                      [cache |-> over.cache,
                       ret |-> Inserted(restart.removed + over.removed)])
             ELSE [cache |-> written, ret |-> Inserted(restart.removed)])))

\* SliceCache::insert: the cache after the call and what the call returns
SliceCache_insert(self, key, value) ==
    IF self.indexes[key].some THEN [cache |-> self, ret |-> NotInserted(ValueAlreadyPresent)]
    ELSE IF Len(value) > Len(self.buffer)
    THEN [cache |-> self, ret |-> NotInserted(ValueLargerThanBuffer)]
    ELSE Bind(SliceCache_insert_restart(self, value), LAMBDA restart :
         Bind(restart.cache.free_pointer, LAMBDA begin :
         Bind(SliceCache_insert_write(restart.cache, key, value), LAMBDA written :
             IF Len(written.insertions) > 1
             THEN Bind(SliceCache_remove_range(
                           written,
                           Range_from_begin_len(begin, Len(value))), LAMBDA over :
                      [cache |-> over.cache,
                       ret |-> Inserted(restart.removed + over.removed)])
             ELSE [cache |-> written, ret |-> Inserted(restart.removed)])))

\* SliceCache::get
SliceCache_get(self, key) ==
    IF self.indexes[key].some
    THEN Some(Range(self.buffer, self.indexes[key].get.begin, self.indexes[key].get.end))
    ELSE None

\* What a caller keeps of its inserts, as tests::with_transactions does: the
\* keys inserted, oldest first, the sum of the numbers insert returned and the
\* sum of the lengths of the values
NoLog == [inserted |-> <<>>, total_removed |-> 0, bytes_written |-> 0]

\* ------------------------------------------------------------------------
\* Inputs: encodings of well-formed objects, then one change to them
\* ------------------------------------------------------------------------

RECURSIVE Concat(_)
Concat(ss) == IF ss = <<>> THEN <<>> ELSE Head(ss) \o Concat(Tail(ss))

Fill(k, b) == [i \in 1..k |-> b]

\* A script of len bytes (len < 0xFD) behind its compact size
EncScript(len) == <<len>> \o Fill(len, 81)

\* The i-th input carries a scriptSig of i - 1 bytes
EncTxIn(i) == Fill(32, 170) \o <<i, 0, 0, 0>> \o EncScript(i - 1) \o <<255, 255, 255, 255>>

EncTxIns(n) == <<n>> \o Concat([i \in 1..n |-> EncTxIn(i)])

\* The i-th output carries a scriptPubKey of 2 - i bytes (0 from the 2nd on)
EncTxOut(i) == <<i, 242, 5, 42, 1, 0, 0, 0>> \o EncScript(IF i = 1 THEN 1 ELSE 0)

EncTxOuts(n) == <<n>> \o Concat([i \in 1..n |-> EncTxOut(i)])

\* A witness stack is named by its element lengths
WitnessKinds == {<<>>, <<0, 2>>}

EncWitness(lens) == <<Len(lens)>> \o Concat([i \in 1..Len(lens) |-> <<lens[i]>> \o Fill(lens[i], 48)])

EncWitnesses(ws) == Concat([i \in 1..Len(ws) |-> EncWitness(ws[i])])

EncLegacyTx(ins, outs) ==
    <<1, 0, 0, 0>> \o EncTxIns(ins) \o EncTxOuts(outs) \o <<0, 0, 0, 0>>

EncSegwitTx(ins, outs, ws) ==
    <<2, 0, 0, 0>> \o <<0, 1>> \o EncTxIns(ins) \o EncTxOuts(outs)
        \o EncWitnesses(ws) \o <<9, 0, 0, 0>>

EncHeader ==
    <<1, 0, 0, 128>> \o Fill(32, 170) \o Fill(32, 59) \o <<41, 171, 95, 73>>
        \o <<255, 255, 0, 29>> \o <<29, 172, 43, 124>>

WitnessesSeeds == UNION {{EncWitnesses(ws) : ws \in [1..n -> WitnessKinds]} : n \in 0..MaxIns}

TransactionSeeds ==
    {EncLegacyTx(i, o) : i \in 0..MaxIns, o \in 0..MaxOuts}
        \cup UNION {{EncSegwitTx(i, o, ws) : ws \in [1..i -> WitnessKinds]} :
                        <<i, o>> \in (0..MaxIns) \X (0..MaxOuts)}

\* The transactions of the encoded blocks: one input at most, one output
BlockTxs == {EncLegacyTx(1, 1), EncSegwitTx(1, 0, <<<<0, 2>>>>)}

BlockSeeds ==
    UNION {{EncHeader \o <<n>> \o Concat(txs) : txs \in [1..n -> BlockTxs]} : n \in 0..MaxTxs}

Entries ==
    {"Block", "BlockHeader", "Transaction", "TxIns", "TxOuts", "TxOut", "OutPoint",
     "Script", "Witnesses"}

Seeds(e) ==
    CASE e = "Block" -> BlockSeeds
      [] e = "BlockHeader" -> {EncHeader}
      [] e = "Transaction" -> TransactionSeeds
      [] e = "TxIns" -> {EncTxIns(n) : n \in 0..MaxIns}
      [] e = "TxOuts" -> {EncTxOuts(n) : n \in 0..MaxOuts}
      [] e = "TxOut" -> {EncTxOut(1), EncTxOut(2)}
      [] e = "OutPoint" -> {Fill(36, 170)}
      [] e = "Script" -> {EncScript(0), EncScript(3)}
      [] e = "Witnesses" -> WitnessesSeeds

\* The values a byte of the input is replaced by
MutBytes == {0, 1, 253}

\* The bytes the encodings above fill hashes, scripts and witness elements
\* with; a byte of these values is left as it is.
PayloadBytes == {170, 81, 48, 59}

\* ------------------------------------------------------------------------
\* The entry points
\* ------------------------------------------------------------------------

\* A parser without visitor, seen as a visit that leaves the visitor alone
Plain(p, visit) == IF p.ok THEN VOk(p.remaining, p.parsed, visit) ELSE VErr(p.err, visit)

\* T::visit(slice, visit), or T::parse(slice) for the types that take no visitor
Visit(e, slice, total_inputs, visit) ==
    CASE e = "Block" -> Block_visit(slice, visit)
      [] e = "BlockHeader" -> BlockHeader_visit(slice, visit)
      [] e = "Transaction" -> Transaction_visit(slice, visit)
      [] e = "TxIns" -> TxIns_visit(slice, visit)
      [] e = "TxOuts" -> TxOuts_visit(slice, visit)
      [] e = "TxOut" -> Plain(TxOut_parse(slice), visit)
      [] e = "OutPoint" -> Plain(OutPoint_parse(slice), visit)
      [] e = "Script" -> Plain(Script_parse(slice), visit)
      [] e = "Witnesses" -> Witnesses_visit(slice, total_inputs, visit)

\* T::parse(slice)
Parse(e, slice, total_inputs) == Parsed(Visit(e, slice, total_inputs, EmptyVisitor))

\* ------------------------------------------------------------------------
\* State machine
\* ------------------------------------------------------------------------

NoResult == [ok |-> FALSE, err |-> [kind |-> "none", flag |-> 0]]

Init ==
    /\ entry \in Entries
    /\ input \in Seeds(entry)
    /\ arg_inputs \in (IF entry = "Witnesses" THEN 0..MaxIns ELSE {0})
    /\ counter = 0
    /\ pc = "seed"
    /\ result = NoResult
    /\ again = NoResult
    /\ cache = SliceCache_new(0)
    /\ log = NoLog

\* The caller hands over only the first k bytes
Truncate(k) ==
    /\ pc = "seed"
    /\ k < Len(input)
    /\ input' = Upto(input, k)
    /\ pc' = "input"
    /\ UNCHANGED <<arg_inputs, counter, entry, result, again, cache, log>>

\* One byte of the input differs
SetByte(i, b) ==
    /\ pc = "seed"
    /\ i \in 1..Len(input)
    /\ input[i] \notin PayloadBytes
    /\ input[i] # b
    /\ input' = [input EXCEPT ![i] = b]
    /\ pc' = "input"
    /\ UNCHANGED <<arg_inputs, counter, entry, result, again, cache, log>>

\* s with the byte at i (from 1) written as a 3-byte compact size
WidenAt(s, i) == Upto(s, i - 1) \o <<253, s[i], 0>> \o From(s, i)

\* One compact size below 0xFD is written in its 3-byte form
Widen(i) ==
    /\ pc = "seed"
    /\ i \in 1..Len(input)
    /\ input[i] \notin PayloadBytes
    /\ input[i] < 253
    /\ input' = WidenAt(input, i)
    /\ pc' = "input"
    /\ UNCHANGED <<arg_inputs, counter, entry, result, again, cache, log>>

\* One more byte follows the input
Extend(b) ==
    /\ pc = "seed"
    /\ input' = Append(input, b)
    /\ pc' = "input"
    /\ UNCHANGED <<arg_inputs, counter, entry, result, again, cache, log>>

\* T::parse(input)
DoParse ==
    /\ pc \in {"seed", "input"}
    /\ result' = Parse(entry, input, arg_inputs)
    /\ pc' = "parsed"
    /\ UNCHANGED <<input, arg_inputs, counter, entry, again, cache, log>>

\* T::visit(input, &mut visitor)
DoVisit(k) ==
    /\ pc \in {"seed", "input"}
    /\ result' = Visit(entry, input, arg_inputs, Visitor(k))
    /\ pc' = "visited"
    /\ UNCHANGED <<input, arg_inputs, counter, entry, again, cache, log>>

\* T::parse(v.as_ref()) of the view v just parsed
DoReparse ==
    /\ pc = "parsed"
    /\ result.ok
    /\ again' = Parse(entry, result.parsed.slice, arg_inputs)
    /\ pc' = "reparsed"
    /\ UNCHANGED <<input, arg_inputs, counter, entry, result, cache, log>>

\* An upper bound of the length of the encoded inputs
MaxInputLen == 80 + 1 + MaxTxs * 80 + MaxIns * 50 + MaxOuts * 12

Next ==
    \/ \E k \in 0..MaxInputLen : Truncate(k)
    \/ \E i \in 1..MaxInputLen, b \in MutBytes : SetByte(i, b)
    \/ \E i \in 1..MaxInputLen : Widen(i)
    \/ \E b \in MutBytes : Extend(b)
    \/ DoParse
    \/ DoReparse

\* The parse entry points on every input
Spec == Init /\ [][Next]_vars

VisitEntries == {"Block", "BlockHeader", "Transaction", "TxIns", "TxOuts", "Witnesses"}

InitVisit == Init /\ entry \in VisitEntries

NextVisit ==
    \/ \E k \in 0..MaxInputLen : Truncate(k)
    \/ \E i \in 1..MaxInputLen, b \in MutBytes : SetByte(i, b)
    \/ \E i \in 1..MaxInputLen : Widen(i)
    \/ \E b \in MutBytes : Extend(b)
    \/ \E k \in 0..MaxBreak : DoVisit(k)

\* T::parse on each strict prefix of what a successful T::parse consumed:
\* `again` maps the length k of the prefix to the result on input[..k]
DoParsePrefixes ==
    /\ pc = "parsed"
    /\ result.ok
    /\ again' = [k \in 0..(consumed_of(result) - 1) |->
                    Parse(entry, Upto(input, k), arg_inputs)]
    /\ pc' = "prefixed"
    /\ UNCHANGED <<input, arg_inputs, counter, entry, result, cache, log>>

\* The prefixes of a block are taken of the encoded blocks and of their
\* extensions; a byte is changed in the inputs of the other entry points.
NextPrefix ==
    \/ \E i \in 1..MaxInputLen, b \in MutBytes : entry # "Block" /\ SetByte(i, b)
    \/ \E b \in MutBytes : Extend(b)
    \/ DoParse
    \/ DoParsePrefixes

\* Every entry point on every input, then on the prefixes of what it consumed
SpecPrefix == Init /\ [][NextPrefix]_vars

InitIter == Init /\ entry = "TxOuts"

\* let mut iter = tx_outs.iter(), on the outputs just visited; `again` holds
\* the iterator and what its calls of next() returned so far
DoIter ==
    /\ pc \in {"visited", "iterating"}
    /\ result.ok
    /\ counter < MaxIters
    /\ counter' = counter + 1
    /\ again' = [it |-> TxOuts_iter(result.parsed), items |-> <<>>]
    /\ pc' = "iterating"
    /\ UNCHANGED <<input, arg_inputs, entry, result, cache, log>>

\* iter.next(), up to MaxPastEnd calls more than there are outputs
DoNext ==
    /\ pc = "iterating"
    /\ Len(again.items) < result.parsed.n + MaxPastEnd
    /\ again' = [it |-> TxOutIterator_next(again.it).it,
                 items |-> Append(again.items, TxOutIterator_next(again.it).item)]
    /\ UNCHANGED <<input, arg_inputs, counter, pc, entry, result, cache, log>>

NextIter ==
    \/ \E k \in 0..MaxInputLen : Truncate(k)
    \/ \E i \in 1..MaxInputLen, b \in MutBytes : SetByte(i, b)
    \/ \E i \in 1..MaxInputLen : Widen(i)
    \/ \E b \in MutBytes : Extend(b)
    \/ DoVisit(0)
    \/ DoIter
    \/ DoNext

\* The outputs are visited, then iterated over, once or more
SpecIter == InitIter /\ [][NextIter]_vars

\* The visit entry points on every input, with every visitor
SpecVisit == InitVisit /\ [][NextVisit]_vars

\* ------------------------------------------------------------------------
\* The compact-size decoders on their own
\* ------------------------------------------------------------------------

\* The first byte of an input of the decoders, and the bytes that follow it
FirstBytes == {0, 1, 252, 253, 254, 255}

NextBytes(s) == IF Len(s) = 1 /\ s[1] = 253 THEN {0, 1, 252, 253, 255} ELSE {0, 1, 255}

\* The length of the encoding a first byte announces
Width(b) == CASE b = 255 -> 9 [] b = 254 -> 5 [] b = 253 -> 3 [] OTHER -> 1

InitLen ==
    /\ entry = "Len"
    /\ input = <<>>
    /\ arg_inputs = 0
    /\ counter = 0
    /\ pc = "seed"
    /\ result = NoResult
    /\ again = NoResult
    /\ cache = SliceCache_new(0)
    /\ log = NoLog

\* The caller's buffer holds one more byte
Feed(b) ==
    /\ pc = "seed"
    /\ IF input = <<>> THEN b \in FirstBytes
       ELSE b \in NextBytes(input) /\ Len(input) < Width(input[1]) + MaxTail
    /\ input' = Append(input, b)
    /\ UNCHANGED <<arg_inputs, counter, pc, entry, result, again, cache, log>>

\* parse_len(input)
DoParseLen ==
    /\ pc = "seed"
    /\ result' = parse_len(input)
    /\ pc' = "parsed"
    /\ UNCHANGED <<input, arg_inputs, counter, entry, again, cache, log>>

\* let mut counter = c; scan_len(input, &mut counter)
DoScanLen(c) ==
    /\ pc = "seed"
    /\ LET r == scan_len(input, c)
       IN  /\ result' = IF r.ok THEN [ok |-> TRUE, n |-> r.n] ELSE PErr(r.err)
           /\ counter' = r.consumed
    /\ again' = [before |-> c]
    /\ pc' = "scanned"
    /\ UNCHANGED <<input, arg_inputs, entry, cache, log>>

\* scan_len(input, &mut counter) on the input parse_len has just run on; the
\* result of parse_len stays in `result`, `again` holds what scan_len did
DoScanParsed(c) ==
    /\ pc = "parsed"
    /\ again' = [before |-> c, scanned |-> scan_len(input, c)]
    /\ counter' = scan_len(input, c).consumed
    /\ pc' = "compared"
    /\ UNCHANGED <<input, arg_inputs, entry, result, cache, log>>

NextLen ==
    \/ \E b \in 0..255 : Feed(b)
    \/ DoParseLen
    \/ \E c \in {0, 7} : DoScanLen(c)
    \/ \E c \in {0, 7} : DoScanParsed(c)

\* parse_len and scan_len on every input
SpecLen == InitLen /\ [][NextLen]_vars

\* ------------------------------------------------------------------------
\* The cache on its own
\* ------------------------------------------------------------------------

\* A key is the hash of its value, so a key has one value: key k stands for
\* (k - 1) % (BufferSize + 2) bytes k, from no byte to one more than the buffer
\* holds
ValueOf(key) == Fill((key - 1) % (BufferSize + 2), key)

InitCache ==
    /\ entry = "SliceCache"
    /\ input = <<>>
    /\ arg_inputs = 0
    /\ counter = 0
    /\ pc = "new"
    /\ result = NoResult
    /\ again = NoResult
    /\ cache = SliceCache_new(BufferSize)
    /\ log = NoLog

\* cache.insert(key, &value); `result` holds the key and what insert returned
DoInsert(key) ==
    /\ entry = "SliceCache"
    /\ cache' = SliceCache_insert(cache, key, ValueOf(key)).cache
    /\ result' = [key |-> key, ret |-> SliceCache_insert(cache, key, ValueOf(key)).ret]
    /\ again' = NoResult
    /\ pc' = "inserted"
    /\ UNCHANGED <<input, arg_inputs, counter, entry, log>>

\* cache.get(&key); `again` holds the key and what get returned
DoGet(key) ==
    /\ pc \in {"inserted", "got"}
    /\ again' = [key |-> key, got |-> SliceCache_get(cache, key)]
    /\ pc' = "got"
    /\ UNCHANGED <<input, arg_inputs, counter, entry, result, cache, log>>

NextCache ==
    \/ \E key \in Keys : DoInsert(key)
    \/ \E key \in Keys : DoGet(key)

\* Every sequence of insert and get on a new cache
SpecCache == InitCache /\ [][NextCache]_vars

\* let removed = cache.insert(key, &value).unwrap(); total_removed += removed;
\* inserted.push(key); bytes_written += value.len(): log follows the inserts
\* that return Ok, up to MaxInserts of them
DoInsertLogged(key) ==
    /\ entry = "SliceCache"
    /\ Len(log.inserted) < MaxInserts
    /\ cache' = SliceCache_insert(cache, key, ValueOf(key)).cache
    /\ result' = [key |-> key, ret |-> SliceCache_insert(cache, key, ValueOf(key)).ret]
    /\ log' = IF SliceCache_insert(cache, key, ValueOf(key)).ret.ok
              THEN [inserted |-> Append(log.inserted, key),
                    total_removed |-> log.total_removed
                        + SliceCache_insert(cache, key, ValueOf(key)).ret.removed,
                    bytes_written |-> log.bytes_written + Len(ValueOf(key))]
              ELSE log
    /\ again' = NoResult
    /\ pc' = "inserted"
    /\ UNCHANGED <<input, arg_inputs, counter, entry>>

NextCacheLogged == \E key \in Keys : DoInsertLogged(key)

\* Every sequence of inserts on a new cache, with the caller's log of them
SpecCacheLogged == InitCache /\ [][NextCacheLogged]_vars

\* ------------------------------------------------------------------------
\* Properties of the compact-size decoders (SpecLen)
\* ------------------------------------------------------------------------

\* A decoder has run on the input
LenDone == pc \in {"parsed", "scanned"}

\* The input ends before the extension bytes its first byte announces do
LenShort ==
    \/ input = <<>>
    \/ input[1] = 253 /\ Len(input) < 3
    \/ input[1] = 254 /\ Len(input) < 5
    \/ input[1] = 255 /\ Len(input) < 9

\* The extension bytes are all there and encode a value that fits a shorter
\* form: below 0xFD after 0xFD, at most 0xFFFF after 0xFE, at most
\* 0xFFFFFFFF after 0xFF
LenNonMinimal ==
    /\ input # <<>>
    /\ \/ input[1] = 253 /\ Len(input) >= 3 /\ input[3] = 0 /\ input[2] < 253
       \/ input[1] = 254 /\ Len(input) >= 5 /\ input[4] = 0 /\ input[5] = 0
       \/ input[1] = 255 /\ Len(input) >= 9 /\ \A i \in 6..9 : input[i] = 0

\* The input starts with 0xFD, 0x10000 or 0x1_0000_0000 in its 3-, 5- or
\* 9-byte form
LenBoundary ==
    \/ Len(input) >= 3 /\ Upto(input, 3) = <<253, 253, 0>>
    \/ Len(input) >= 5 /\ Upto(input, 5) = <<254, 0, 0, 1, 0>>
    \/ Len(input) >= 9 /\ Upto(input, 9) = <<255, 0, 0, 0, 0, 1, 0, 0, 0>>

\* C2: parse_len and scan_len fail with MoreBytesNeeded on an empty input or
\* when fewer than 2 / 4 / 8 extension bytes follow 0xFD / 0xFE / 0xFF, fail
\* with NonMinimalVarInt when the extension bytes are present and encode a
\* value that fits a shorter form, and accept the boundary values 0xFD,
\* 0x10000 and 0x1_0000_0000 in their 3-, 5- and 9-byte forms.
C2_LenFailures ==
    LenDone =>
        /\ LenShort => result = PErr(MoreBytesNeeded)
        /\ LenNonMinimal => result = PErr(NonMinimalVarInt)
        /\ LenBoundary => result.ok

\* Both decoders have met each of the failures and the widest boundary value
C2_Witness ==
    /\ pc = "scanned"
    /\ Len(input) >= 5
    /\ Upto(input, 5) = <<254, 255, 255, 0, 0>>
    /\ result = PErr(NonMinimalVarInt)

\* The first w bytes of the input after the first one, as the 8 bytes of a u64
ExtensionBytes(w) == [i \in 1..8 |-> IF i <= w THEN input[i + 1] ELSE 0]

\* C3: a successful parse_len returns n = b, consumed = 1 for a first byte
\* b <= 0xFC, and the little-endian u16 / u32 / u64 of the next 2 / 4 / 8 bytes
\* with consumed = 3 / 5 / 9 for 0xFD / 0xFE / 0xFF; the bytes after the
\* encoding are ignored.
C3_LenDecoding ==
    (pc = "parsed" /\ result.ok) =>
        /\ input[1] <= 252 =>
              /\ result.consumed = 1
              /\ to_le_bytes(result.n) = <<input[1], 0, 0, 0, 0, 0, 0, 0>>
        /\ input[1] = 253 =>
              result.consumed = 3 /\ to_le_bytes(result.n) = ExtensionBytes(2)
        /\ input[1] = 254 =>
              result.consumed = 5 /\ to_le_bytes(result.n) = ExtensionBytes(4)
        /\ input[1] = 255 =>
              result.consumed = 9 /\ to_le_bytes(result.n) = ExtensionBytes(8)
        /\ result.consumed \in {1, 3, 5, 9}
        /\ result.consumed <= Len(input)
        /\ result = parse_len(Upto(input, result.consumed))

\* A 5-byte encoding with unequal bytes, followed by one more byte, is decoded
C3_Witness ==
    /\ pc = "parsed"
    /\ result.ok
    /\ Len(input) = 6
    /\ input[1] = 254
    /\ input[2] # input[5]
    /\ result.consumed = 5

\* C18: parse_len and scan_len agree on every input: one returns Ok exactly
\* when the other does, with the same value and with `consumed` increased by
\* what parse_len reports as consumed; when they fail they fail with the same
\* error.
C18_ParseScanAgree ==
    pc = "compared" =>
        LET scanned == again.scanned
        IN  /\ result.ok <=> scanned.ok
            /\ result.ok =>
                 /\ scanned.n = result.n
                 /\ counter = again.before + result.consumed
            /\ ~result.ok => scanned.err = result.err

\* The smallest value of the 5-byte form, scanned with a counter that is not 0
C18_Witness ==
    /\ pc = "compared"
    /\ Len(input) >= 5
    /\ Upto(input, 5) = <<254, 0, 0, 1, 0>>
    /\ again.before = 7
    /\ result.ok
    /\ counter = 12

\* Both fail on the largest value that fits the 3-byte form, in the 5-byte one
C18_WitnessNonMinimal ==
    /\ pc = "compared"
    /\ input = <<254, 255, 255, 0, 0>>
    /\ result = PErr(NonMinimalVarInt)
    /\ ~again.scanned.ok

\* ------------------------------------------------------------------------
\* Properties of the parse entry points (Spec)
\* ------------------------------------------------------------------------

\* C1: when T::parse(input) succeeds with view v and remainder r, v.as_ref()
\* is input[..consumed], r is input[consumed..] and the two lengths add up to
\* the length of the input, for every entry point T (Witnesses with any
\* total_inputs).
C1_ViewAndRemainder ==
    (pc = "parsed" /\ result.ok) =>
        LET consumed == consumed_of(result)
        IN  /\ consumed <= Len(input)
            /\ result.parsed.slice = Upto(input, consumed)
            /\ result.remaining = From(input, consumed)
            /\ Len(result.parsed.slice) + Len(result.remaining) = Len(input)

\* A script with a payload is parsed out of an input that goes on after it
C1_Witness ==
    /\ pc = "parsed"
    /\ entry = "Script"
    /\ result.ok
    /\ Len(result.parsed.slice) > 1
    /\ result.remaining # <<>>

\* C10: parsing v.as_ref() again succeeds, leaves nothing, consumes all of it
\* and gives a view equal to v field by field.
C10_RoundTrip ==
    pc = "reparsed" =>
        /\ again.ok
        /\ again.remaining = <<>>
        /\ consumed_of(again) = Len(result.parsed.slice)
        /\ again.parsed = result.parsed

\* A segwit transaction cut out of a longer input is parsed again
C10_Witness ==
    /\ pc = "reparsed"
    /\ entry = "Transaction"
    /\ result.remaining # <<>>
    /\ result.parsed.inputs_outputs_len.some
    /\ again.ok

\* The input is a transaction in the segwit layout as far as the flag
SegwitEncoded ==
    /\ entry = "Transaction"
    /\ Len(input) >= 6
    /\ input[5] = 0
    /\ input[6] = 1

\* The vector of real inputs, the one behind the flag
RealInputs(s) == Parse("TxIns", From(s, 6), 0)

\* The vector of outputs behind the real inputs
RealOutputs(s) == Parse("TxOuts", RealInputs(s).remaining, 0)

EmptyStacks(bytes, n) ==
    /\ Len(bytes) >= n
    /\ \A i \in 1..n : bytes[i] = 0

\* The segwit layout with real inputs, outputs and only empty witness stacks
AllStacksEmpty ==
    /\ SegwitEncoded
    /\ RealInputs(input).ok
    /\ RealInputs(input).parsed.n >= 1
    /\ RealOutputs(input).ok
    /\ EmptyStacks(RealOutputs(input).remaining, RealInputs(input).parsed.n)

\* C5: a segwit transaction with one or more real inputs whose witness stacks
\* all have zero elements fails with SegwitFlagWithoutWitnesses, also when the
\* locktime bytes are missing.
C5_SegwitFlagWithoutWitnesses ==
    (pc = "parsed" /\ AllStacksEmpty) => result = PErr(SegwitFlagWithoutWitnesses)

\* The input ends right after the empty witness stacks, before the locktime
C5_Witness ==
    /\ pc = "parsed"
    /\ AllStacksEmpty
    /\ Len(RealOutputs(input).remaining) = RealInputs(input).parsed.n
    /\ result = PErr(SegwitFlagWithoutWitnesses)

\* C6: when the inputs count after the version is 0x00 and the next byte b is
\* not 0x01, Transaction::parse fails with UnknownSegwitFlag(b) whatever
\* follows; when there is no next byte it fails with MoreBytesNeeded.
C6_UnknownSegwitFlag ==
    (pc = "parsed" /\ entry = "Transaction" /\ Len(input) >= 5 /\ input[5] = 0) =>
        IF Len(input) = 5
        THEN result = PErr(MoreBytesNeeded)
        ELSE input[6] # 1 => result = PErr(UnknownSegwitFlag(input[6]))

\* A flag of 0xFD in front of a whole transaction body
C6_Witness ==
    /\ pc = "parsed"
    /\ entry = "Transaction"
    /\ Len(input) > 10
    /\ input[5] = 0
    /\ input[6] = 253
    /\ result = PErr(UnknownSegwitFlag(253))

\* C7: the txid preimage of a parsed transaction with bytes s is
\* (s, empty, empty) in the legacy layout and (s[0..4], s[6..6+L], s[len-4..])
\* in the segwit layout, L being the length of the real inputs plus the
\* length of the outputs; the three ranges together are version, inputs,
\* outputs and locktime, that is s without marker, flag and witnesses.
C7_TxidPreimage ==
    (pc = "parsed" /\ entry = "Transaction" /\ result.ok) =>
        LET s == result.parsed.slice
            preimage == txid_preimage(result.parsed)
        IN  IF s[5] # 0
            THEN preimage = <<s, <<>>, <<>>>>
            ELSE LET ins == RealInputs(s)
                     outs == RealOutputs(s)
                     L == Len(ins.parsed.slice) + Len(outs.parsed.slice)
                     witnesses == Parse("Witnesses", outs.remaining, ins.parsed.n)
                 IN  /\ preimage = <<Range(s, 0, 4), Range(s, 6, 6 + L),
                                     Range(s, Len(s) - 4, Len(s))>>
                     /\ preimage[1] \o preimage[2] \o preimage[3]
                            = Upto(s, 4) \o ins.parsed.slice \o outs.parsed.slice
                                \o witnesses.remaining
                     /\ Len(preimage[1]) + Len(preimage[2]) + Len(preimage[3])
                            = Len(s) - 2 - Len(witnesses.parsed.slice)

\* A parsed segwit transaction with inputs, outputs and witness elements
C7_Witness ==
    /\ pc = "parsed"
    /\ entry = "Transaction"
    /\ result.ok
    /\ result.parsed.inputs_outputs_len.some
    /\ result.parsed.inputs_outputs_len.get > 50
    /\ Len(result.parsed.slice) > result.parsed.inputs_outputs_len.get + 11

\* C14: the weight of a decoded transaction is (L + 8) * 3 + its length when
\* it is in the segwit layout, L being the length of the vectors of real
\* inputs and of outputs, and 4 times its length otherwise; both are 3 times
\* the length of the three ranges of the txid preimage plus the full length.
C14_Weight ==
    (pc = "parsed" /\ entry = "Transaction" /\ result.ok) =>
        LET s == result.parsed.slice
            preimage == txid_preimage(result.parsed)
            hashed == Len(preimage[1]) + Len(preimage[2]) + Len(preimage[3])
        IN  /\ weight(result.parsed) = 3 * hashed + Len(s)
            /\ IF s[5] # 0
               THEN weight(result.parsed) = Len(s) * 4
               ELSE LET ins == RealInputs(s)
                        outs == RealOutputs(s)
                        L == Len(ins.parsed.slice) + Len(outs.parsed.slice)
                    IN  weight(result.parsed) = (L + 8) * 3 + Len(s)

\* A transaction with a non-empty witness stack, lighter than 4 times its length
C14_Witness ==
    /\ pc = "parsed"
    /\ entry = "Transaction"
    /\ result.ok
    /\ result.parsed.inputs_outputs_len.some
    /\ Len(result.parsed.slice) > result.parsed.inputs_outputs_len.get + 12
    /\ weight(result.parsed) < 4 * Len(result.parsed.slice) - 6

\* A transaction in the legacy layout with an input and an output
C14_WitnessLegacy ==
    /\ pc = "parsed"
    /\ entry = "Transaction"
    /\ result.ok
    /\ ~result.parsed.inputs_outputs_len.some
    /\ weight(result.parsed) > 4 * 50

\* The unsigned 32-bit value of four bytes, low byte first, as two 16-bit limbs
LittleEndian32(s, at) ==
    <<s[at + 1] + 256 * s[at + 2], s[at + 3] + 256 * s[at + 4]>>

\* v is the two's complement 32-bit value of the four bytes of s behind at
IsSigned32Of(v, s, at) ==
    /\ v \in -2147483647 - 1 .. 2147483647
    /\ \A i \in 0..3 : (v \div (256 ^ i)) % 256 = s[at + 1 + i]

\* C15: BlockHeader::parse succeeds exactly on the inputs of 80 bytes or
\* more; it then consumes 80 bytes, version, time, bits and nonce are the
\* little-endian values of bytes [0..4], [68..72], [72..76] and [76..80],
\* prev_blockhash() is bytes [4..36], merkle_root() bytes [36..68], and
\* block_hash_preimage() the first 80 bytes of the input.
C15_BlockHeader ==
    (pc = "parsed" /\ entry = "BlockHeader") =>
        /\ result.ok <=> Len(input) >= 80
        /\ result.ok =>
             LET header == result.parsed
             IN  /\ consumed_of(result) = 80
                 /\ result.remaining = SubSeq(input, 81, Len(input))
                 /\ IsSigned32Of(header.version, input, 0)
                 /\ header.time = LittleEndian32(input, 68)
                 /\ header.bits = LittleEndian32(input, 72)
                 /\ header.nonce = LittleEndian32(input, 76)
                 /\ prev_blockhash(header) = SubSeq(input, 5, 36)
                 /\ Len(prev_blockhash(header)) = 32
                 /\ merkle_root(header) = SubSeq(input, 37, 68)
                 /\ Len(merkle_root(header)) = 32
                 /\ block_hash_preimage(header) = SubSeq(input, 1, 80)

\* A header of negative version followed by one more byte
C15_Witness ==
    /\ pc = "parsed"
    /\ entry = "BlockHeader"
    /\ result.ok
    /\ Len(input) = 81
    /\ result.parsed.version < 0
    /\ prev_blockhash(result.parsed) # merkle_root(result.parsed)

\* A header cut after 79 bytes
C15_WitnessShort ==
    /\ pc = "parsed"
    /\ entry = "BlockHeader"
    /\ ~result.ok
    /\ Len(input) = 79

\* `left` witness stacks decoded one after the other from rest, each on its own
RECURSIVE Stacks(_, _)
Stacks(rest, left) ==
    IF left = 0 THEN [ok |-> TRUE, views |-> <<>>]
    ELSE LET stack == Parsed(Witness_visit(rest, EmptyVisitor))
         IN  IF ~stack.ok THEN [ok |-> FALSE, views |-> <<>>]
             ELSE LET others == Stacks(stack.remaining, left - 1)
                  IN  [ok |-> others.ok, views |-> <<stack.parsed>> \o others.views]

\* C16: Witnesses::parse(slice, total_inputs) decodes total_inputs witness
\* stacks one after the other, no byte when total_inputs is 0, and all_empty()
\* holds exactly when each of these stacks has zero elements.
C16_Witnesses ==
    (pc = "parsed" /\ entry = "Witnesses") =>
        LET stacks == Stacks(input, arg_inputs)
        IN  /\ result.ok <=> stacks.ok
            /\ arg_inputs = 0 => result.ok /\ consumed_of(result) = 0
            /\ result.ok =>
                 /\ Len(stacks.views) = arg_inputs
                 /\ result.parsed.slice
                        = Concat([i \in 1..arg_inputs |-> stacks.views[i].slice])
                 /\ result.parsed.all_empty
                        <=> \A i \in 1..arg_inputs : stacks.views[i].n = 0
                 /\ result.parsed.all_empty
                        <=> result.parsed.slice = Fill(arg_inputs, 0)

\* Two stacks are decoded, the first with elements and the second without
C16_Witness ==
    /\ pc = "parsed"
    /\ entry = "Witnesses"
    /\ result.ok
    /\ arg_inputs = 2
    /\ ~result.parsed.all_empty
    /\ result.parsed.slice[Len(result.parsed.slice)] = 0
    /\ Len(result.parsed.slice) = 6

\* Two empty stacks are decoded from an input that goes on
C16_WitnessAllEmpty ==
    /\ pc = "parsed"
    /\ entry = "Witnesses"
    /\ result.ok
    /\ arg_inputs = 2
    /\ result.parsed.all_empty
    /\ Len(input) = 3

\* No stack is asked for and the input is not empty
C16_WitnessNone ==
    /\ pc = "parsed"
    /\ entry = "Witnesses"
    /\ result.ok
    /\ arg_inputs = 0
    /\ Len(input) > 0

\* The outcome of a run of nested parsers: none failed, or the first failure
NoFailure == [failed |-> FALSE]

Failure(e) == [failed |-> TRUE, err |-> e]

\* The first failure among the parsers Transaction::parse runs on s, each
\* run on its own where the one before it stopped
TxFailure(s) ==
    LET version == number_parse(s, 4)
        first == Parse("TxIns", From(s, 4), 0)
    IN  IF ~version.ok THEN Failure(version.err)
        ELSE IF ~first.ok THEN Failure(first.err)
        ELSE IF first.parsed.n # 0
        THEN LET outs == Parse("TxOuts", first.remaining, 0)
             IN  IF ~outs.ok THEN Failure(outs.err)
                 ELSE IF Len(outs.remaining) < 4 THEN Failure(MoreBytesNeeded)
                 ELSE NoFailure
        ELSE IF Len(s) < 6 THEN Failure(MoreBytesNeeded)
        ELSE IF s[6] # 1 THEN Failure(UnknownSegwitFlag(s[6]))
        ELSE LET ins == RealInputs(s)
                 outs == RealOutputs(s)
                 witnesses == Parse("Witnesses", outs.remaining, ins.parsed.n)
             IN  IF ~ins.ok THEN Failure(ins.err)
                 ELSE IF ~outs.ok THEN Failure(outs.err)
                 ELSE IF ~witnesses.ok THEN Failure(witnesses.err)
                 ELSE IF ins.parsed.n # 0 /\ witnesses.parsed.all_empty
                 THEN Failure(SegwitFlagWithoutWitnesses)
                 ELSE IF Len(witnesses.remaining) < 4 THEN Failure(MoreBytesNeeded)
                 ELSE NoFailure

\* The first failure of Transaction::parse run `left` times in a row
RECURSIVE TxsFailure(_, _)
TxsFailure(rest, left) ==
    IF left = 0 THEN NoFailure
    ELSE LET tx == Parse("Transaction", rest, 0)
         IN  IF ~tx.ok THEN Failure(tx.err) ELSE TxsFailure(tx.remaining, left - 1)

\* The first failure among the parsers Block::parse runs on s
BlockFailure(s) ==
    LET header == Parse("BlockHeader", s, 0)
        l == parse_len(From(s, 80))
    IN  IF ~header.ok THEN Failure(header.err)
        ELSE IF ~l.ok THEN Failure(l.err)
        ELSE TxsFailure(From(s, 80 + l.consumed), as_usize(l.n))

\* Where the count of the outputs is in the transaction t (from 1)
OutputCountAt(t) ==
    LET ins == IF t[5] = 0 THEN RealInputs(t) ELSE Parse("TxIns", From(t, 4), 0)
    IN  Len(t) - Len(ins.remaining) + 1

\* The input is a transaction that parses to its end, but for its count of
\* outputs, written in 3 bytes
NonMinimalOutputCount ==
    /\ entry = "Transaction"
    /\ \E t \in TransactionSeeds :
        /\ Len(input) = Len(t) + 2
        /\ Parse("Transaction", t, 0).ok
        /\ input = WidenAt(t, OutputCountAt(t))

C9_Example ==
    /\ pc = "parsed"
    /\ NonMinimalOutputCount
    /\ result = PErr(NonMinimalVarInt)

\* The kinds of enum Error
ErrorKinds ==
    {"MoreBytesNeeded", "UnknownSegwitFlag", "SegwitFlagWithoutWitnesses",
     "NonMinimalVarInt", "VisitBreak"}

\* C27: every parse entry point returns on every input, empty, truncated or
\* carrying counts and lengths far larger than the input: either Ok with a
\* view and a remainder that lie in the input, or Err of one of the Error
\* kinds; no index out of range, no failing expect, no overflowing sum.
C27_ParseIsTotal ==
    pc = "parsed" =>
        IF result.ok
        THEN /\ Len(result.parsed.slice) <= Len(input)
             /\ result.parsed.slice = Upto(input, Len(result.parsed.slice))
             /\ result.remaining = From(input, Len(result.parsed.slice))
        ELSE /\ result # Panicked
             /\ result.err.kind \in ErrorKinds

\* A script whose length prefix announces far more bytes than the input holds
C27_Witness ==
    /\ pc = "parsed"
    /\ entry = "Script"
    /\ parse_len(input).ok
    /\ as_usize(parse_len(input).n) > 100 * Len(input)
    /\ result = PErr(MoreBytesNeeded)

\* A transaction whose input count is far larger than the input
C27_WitnessCount ==
    /\ pc = "parsed"
    /\ entry = "Transaction"
    /\ Len(input) > 4
    /\ parse_len(From(input, 4)).ok
    /\ as_usize(parse_len(From(input, 4)).n) > 100 * Len(input)
    /\ result = PErr(MoreBytesNeeded)

\* The empty input
C27_WitnessEmpty ==
    /\ pc = "parsed"
    /\ input = <<>>
    /\ result = PErr(MoreBytesNeeded)

\* What `TxIns::parse` returns for the vector a parse of the input starts
\* with: the input itself, or what follows the version of a transaction
FirstTxIns ==
    IF entry = "TxIns" THEN Parse("TxIns", input, 0)
    ELSE IF entry = "Transaction" /\ Len(input) >= 4 THEN Parse("TxIns", From(input, 4), 0)
    ELSE PErr(MoreBytesNeeded)

\* C29: for every successfully parsed TxIns, is_empty() is true iff the
\* first byte of its slice is 0x00, iff n() = 0: no accepted TxIns has
\* n() = 0 with a first byte other than zero, so the segwit-marker test of
\* Transaction fires exactly on a count of zero.
C29_EmptyIffZero ==
    (pc = "parsed" /\ FirstTxIns.ok) =>
        /\ TxIns_is_empty(FirstTxIns.parsed) <=> (FirstTxIns.parsed.slice[1] = 0)
        /\ TxIns_is_empty(FirstTxIns.parsed) <=> (FirstTxIns.parsed.n = 0)
        /\ (entry = "Transaction" /\ result.ok) =>
                (SegwitEncoded <=> FirstTxIns.parsed.n = 0)

\* A vector of count zero is accepted: its only byte is 0x00 and it is empty
C29_Witness ==
    /\ pc = "parsed"
    /\ entry = "TxIns"
    /\ result.ok
    /\ result.parsed.n = 0
    /\ result.parsed.slice = <<0>>
    /\ TxIns_is_empty(result.parsed)

\* The count zero written in three bytes, 0xFD 0x00 0x00, is refused
C29_WitnessRefused ==
    /\ pc = "parsed"
    /\ entry = "TxIns"
    /\ input = <<253, 0, 0>>
    /\ result = PErr(NonMinimalVarInt)

\* A vector of two inputs is accepted and is not empty
C29_WitnessTwo ==
    /\ pc = "parsed"
    /\ entry = "TxIns"
    /\ result.ok
    /\ result.parsed.n = 2
    /\ ~TxIns_is_empty(result.parsed)

\* ------------------------------------------------------------------------
\* Properties of the visits (SpecVisit)
\* ------------------------------------------------------------------------

\* The hooks that answer with a ControlFlow
ControlFlowHooks ==
    {"visit_block_header", "visit_transaction", "visit_tx_in", "visit_tx_out",
     "visit_witness"}

\* How many times the visit asked a ControlFlow hook
Asked(calls) == Cardinality({i \in 1..Len(calls) : calls[i].hook \in ControlFlowHooks})

\* The visitor answered Break during the visit
Broke == pc = "visited" /\ result.v.breakAt > 0 /\ Asked(result.v.calls) >= result.v.breakAt

\* C8: when a hook answers Break the top-level visit returns Err(VisitBreak)
\* and the breaking hook is the last hook invoked, whatever bytes follow.
C8_BreakShortCircuits ==
    Broke =>
        LET calls == result.v.calls
        IN  /\ result = VErr(VisitBreak, result.v)
            /\ Asked(calls) = result.v.breakAt
            /\ calls[Len(calls)].hook \in ControlFlowHooks

\* visit_witness answers Break inside a transaction of a block
C8_Witness ==
    /\ Broke
    /\ entry = "Block"
    /\ result.v.calls[Len(result.v.calls)].hook = "visit_witness"
    /\ result.err = VisitBreak

\* The hook calls of `left` transactions visited one after the other, each
\* visited on its own by a visitor that never breaks
RECURSIVE TxsCalls(_, _)
TxsCalls(rest, left) ==
    IF left = 0 THEN <<>>
    ELSE LET tx == Visit("Transaction", rest, 0, EmptyVisitor)
         IN  IF ~tx.ok THEN <<>>
             ELSE tx.v.calls \o TxsCalls(tx.remaining, left - 1)

\* How many calls of the hook are in calls
CallsOf(calls, hook) == Cardinality({i \in 1..Len(calls) : calls[i].hook = hook})

\* C11: a successful Block::visit calls visit_block_header once, then
\* visit_block_begin once with the decoded count, then the hooks of that many
\* transactions in input order, each ending with its visit_transaction; so
\* visit_transaction is called total_transactions() times, after
\* visit_block_begin.
C11_BlockHookOrder ==
    (pc = "visited" /\ entry = "Block" /\ result.ok) =>
        LET calls == result.v.calls
            total_txs == as_usize(parse_len(From(input, 80)).n)
        IN  /\ Len(calls) >= 2
            /\ calls[1].hook = "visit_block_header"
            /\ calls[1].arg = result.parsed.header
            /\ calls[2] = [hook |-> "visit_block_begin", index |-> total_txs, arg |-> <<>>]
            /\ result.parsed.total_txs = total_txs
            /\ From(calls, 2)
                    = TxsCalls(From(input, 80 + parse_len(From(input, 80)).consumed),
                               total_txs)
            /\ CallsOf(calls, "visit_transaction") = total_txs
            /\ CallsOf(calls, "visit_block_header") = 1
            /\ CallsOf(calls, "visit_block_begin") = 1
            /\ total_txs > 0 => calls[Len(calls)].hook = "visit_transaction"

\* A block of two transactions is visited to its end
C11_Witness ==
    /\ pc = "visited"
    /\ entry = "Block"
    /\ result.ok
    /\ result.parsed.total_txs = 2
    /\ CallsOf(result.v.calls, "visit_transaction") = 2

\* The views of `left` elements parsed one after the other: inputs for
\* "TxIns", outputs for "TxOuts"
RECURSIVE Elements(_, _, _)
Elements(e, rest, left) ==
    IF left = 0 THEN <<>>
    ELSE LET el == IF e = "TxIns" THEN TxIn_parse(rest) ELSE TxOut_parse(rest)
         IN  IF ~el.ok THEN <<>>
             ELSE <<el.parsed>> \o Elements(e, el.remaining, left - 1)

\* C12: a TxIns::visit (TxOuts::visit) that succeeds with count n calls
\* visit_tx_ins(n) (visit_tx_outs(n)) first, then visit_tx_in(i, view)
\* (visit_tx_out(i, view)) once for i = 0 .. n-1 in this order, the view
\* being the one of the i-th element.
C12_ElementHookOrder ==
    (pc = "visited" /\ entry \in {"TxIns", "TxOuts"} /\ result.ok) =>
        LET calls == result.v.calls
            n == as_usize(parse_len(input).n)
            views == Elements(entry, From(input, parse_len(input).consumed), n)
            total == IF entry = "TxIns" THEN "visit_tx_ins" ELSE "visit_tx_outs"
            each == IF entry = "TxIns" THEN "visit_tx_in" ELSE "visit_tx_out"
        IN  /\ result.parsed.n = n
            /\ Len(views) = n
            /\ Len(calls) = n + 1
            /\ calls[1] = [hook |-> total, index |-> n, arg |-> <<>>]
            /\ \A i \in 0..(n - 1) :
                calls[i + 2] = [hook |-> each, index |-> i, arg |-> views[i + 1]]

\* Two outputs or more are visited to the end
C12_Witness ==
    /\ pc = "visited"
    /\ entry = "TxOuts"
    /\ result.ok
    /\ result.parsed.n >= 2
    /\ result.v.calls[3].index = 1

\* The bytes of the transactions of the input: the input itself, or what
\* follows the header and the count of a block
TxsBytes ==
    IF entry = "Block" THEN From(input, 80 + parse_len(From(input, 80)).consumed)
    ELSE input

\* The hooks called before the first transaction: those of the block
BeforeTxs == IF entry = "Block" THEN 2 ELSE 0

\* The calls up to the m-th visit_transaction are the hooks of m transactions
\* that decode, each ending with its visit_transaction
VisitTransactionLast ==
    (/\ pc = "visited"
     /\ entry \in {"Transaction", "Block"}
     /\ CallsOf(result.v.calls, "visit_transaction") > 0) =>
        LET calls == result.v.calls
            m == CallsOf(calls, "visit_transaction")
            decoded == TxsCalls(TxsBytes, m)
        IN  /\ CallsOf(decoded, "visit_transaction") = m
            /\ Len(calls) >= BeforeTxs + Len(decoded)
            /\ Range(calls, BeforeTxs, BeforeTxs + Len(decoded)) = decoded
            /\ decoded[Len(decoded)].hook = "visit_transaction"
            /\ entry = "Transaction" =>
                 /\ Parse("Transaction", input, 0).ok
                 /\ calls[Len(calls)].arg = Parse("Transaction", input, 0).parsed
                 /\ Len(calls[Len(calls)].arg.slice) <= Len(input)
                 /\ result.ok \/ result.err = VisitBreak

\* A transaction that does not decode gets no visit_transaction, whatever the
\* visitor answers
NoneOnError ==
    (/\ pc = "visited"
     /\ entry = "Transaction"
     /\ ~Parse("Transaction", input, 0).ok) =>
        CallsOf(result.v.calls, "visit_transaction") = 0

\* C24: visit_transaction is called for a transaction only when the
\* transaction has been decoded to its end without error, locktime and segwit
\* checks included, and after all the hooks of its inputs, outputs and
\* witnesses; a transaction that fails to decode gets none.
C24_VisitTransactionLast == VisitTransactionLast /\ NoneOnError

\* The second transaction of a block lacks its last byte: the first one got
\* visit_transaction, the second one its other hooks only
C24_Witness ==
    /\ pc = "visited"
    /\ entry = "Block"
    /\ result.v.breakAt = 0
    /\ ~result.ok
    /\ result.err = MoreBytesNeeded
    /\ CallsOf(result.v.calls, "visit_transaction") = 1
    /\ result.v.calls[Len(result.v.calls)].hook # "visit_transaction"
    /\ CallsOf(result.v.calls, "visit_tx_ins") >= 2
    /\ CallsOf(result.v.calls, "visit_tx_outs") = 2

\* The hooks of the witness stacks vin .. total - 1 decoded from rest: for
\* each, visit_witness(vin), the hooks of the stack visited on its own, then
\* visit_witness_end()
RECURSIVE StacksCalls(_, _, _)
StacksCalls(rest, vin, total) ==
    IF vin >= total THEN <<>>
    ELSE LET stack == Witness_visit(rest, EmptyVisitor)
         IN  IF ~stack.ok THEN <<>>
             ELSE <<[hook |-> "visit_witness", index |-> vin, arg |-> <<>>]>>
                    \o stack.v.calls
                    \o <<[hook |-> "visit_witness_end", index |-> 0, arg |-> <<>>]>>
                    \o StacksCalls(stack.remaining, vin + 1, total)

\* The calls of visit_witness and visit_witness_end among calls, in order
WitnessBrackets(calls) ==
    SelectSeq(calls, LAMBDA c : c.hook \in {"visit_witness", "visit_witness_end"})

\* C25: a Witnesses::visit that succeeds with total_inputs = n calls, for
\* vin = 0 .. n - 1 in order, visit_witness(vin), the hooks of that stack and
\* visit_witness_end(); visit_witness and visit_witness_end alternate and
\* each is called n times.
C25_WitnessHookOrder ==
    (pc = "visited" /\ entry = "Witnesses" /\ result.ok) =>
        LET calls == result.v.calls
            brackets == WitnessBrackets(calls)
        IN  /\ calls = StacksCalls(input, 0, arg_inputs)
            /\ CallsOf(calls, "visit_witness") = arg_inputs
            /\ CallsOf(calls, "visit_witness_end") = arg_inputs
            /\ Len(brackets) = 2 * arg_inputs
            /\ \A vin \in 0..(arg_inputs - 1) :
                    /\ brackets[2 * vin + 1].hook = "visit_witness"
                    /\ brackets[2 * vin + 1].index = vin
                    /\ brackets[2 * vin + 2].hook = "visit_witness_end"
            /\ arg_inputs > 0 =>
                    /\ calls[1].hook = "visit_witness"
                    /\ calls[Len(calls)].hook = "visit_witness_end"

\* Two stacks are visited, the first with two elements, the second with none
C25_Witness ==
    /\ pc = "visited"
    /\ entry = "Witnesses"
    /\ result.ok
    /\ arg_inputs = 2
    /\ Len(result.v.calls) = 8
    /\ result.v.calls[5].hook = "visit_witness_end"
    /\ result.v.calls[6].hook = "visit_witness"
    /\ result.parsed.slice[Len(result.parsed.slice)] = 0

\* Every hook the visit called returned () or Continue
AllContinue ==
    /\ pc = "visited"
    /\ \/ result.v.breakAt = 0
       \/ Asked(result.v.calls) < result.v.breakAt

\* C26: the outcome of T::visit with a visitor whose hooks all returned
\* Continue is the outcome of T::parse on the same input, view and remainder
\* or error, whatever the visitor is and has recorded; T::parse is a function
\* of the input (and of total_inputs) only.
C26_VisitAsParse ==
    AllContinue =>
        /\ Parsed(result) = Parse(entry, input, arg_inputs)
        /\ result.ok => result.parsed = Parse(entry, input, arg_inputs).parsed
        /\ ~result.ok => /\ result.err # VisitBreak
                         /\ result.err = Parse(entry, input, arg_inputs).err

\* A visitor that would break at its 5th question was asked 3 times by a
\* transaction that decodes
C26_Witness ==
    /\ AllContinue
    /\ entry = "Transaction"
    /\ result.v.breakAt = 5
    /\ Asked(result.v.calls) = 3
    /\ result.ok
    /\ Len(result.v.calls) > 5

\* The same for a block that fails to decode after the visitor was asked twice
C26_WitnessError ==
    /\ AllContinue
    /\ entry = "Block"
    /\ result.v.breakAt = 3
    /\ Asked(result.v.calls) = 2
    /\ ~result.ok

\* The calls of the hook in calls, in order
Only(calls, hook) == SelectSeq(calls, LAMBDA c : c.hook = hook)

\* The count of real inputs of the transaction encoded in s
InputCount(s) ==
    IF Len(s) >= 6 /\ s[5] = 0 /\ s[6] = 1
    THEN RealInputs(s).parsed.n
    ELSE Parse("TxIns", From(s, 4), 0).parsed.n

\* C28: while one Transaction is decoded, visit_tx_ins is invoked exactly
\* once, with the real input count, and visit_tx_outs exactly once, in legacy
\* and in segwit form.
C28_TotalsOnce ==
    (pc = "visited" /\ entry = "Transaction" /\ result.ok) =>
        /\ Len(Only(result.v.calls, "visit_tx_ins")) = 1
        /\ Only(result.v.calls, "visit_tx_ins")[1].index = InputCount(input)
        /\ Len(Only(result.v.calls, "visit_tx_outs")) = 1

\* A segwit transaction of two inputs was decoded: visit_tx_ins was called
\* with 0 for the marker, then with 2, and visit_tx_outs once
C28_Witness ==
    /\ pc = "visited"
    /\ entry = "Transaction"
    /\ result.ok
    /\ SegwitEncoded
    /\ InputCount(input) = 2
    /\ Len(Only(result.v.calls, "visit_tx_ins")) = 2
    /\ Only(result.v.calls, "visit_tx_ins")[1].index = 0
    /\ Only(result.v.calls, "visit_tx_ins")[2].index = 2
    /\ result.v.calls[1].hook = "visit_tx_ins"
    /\ Len(Only(result.v.calls, "visit_tx_outs")) = 1

\* In legacy form the two hooks are called once each
C28_LegacyOnce ==
    (pc = "visited" /\ entry = "Transaction" /\ result.ok /\ ~SegwitEncoded) =>
        /\ Len(Only(result.v.calls, "visit_tx_ins")) = 1
        /\ Only(result.v.calls, "visit_tx_ins")[1].index = InputCount(input)
        /\ Len(Only(result.v.calls, "visit_tx_outs")) = 1

\* In segwit form visit_tx_ins is called twice, with 0 and with the real
\* count, and visit_tx_outs once
C28_SegwitTwice ==
    (pc = "visited" /\ entry = "Transaction" /\ result.ok /\ SegwitEncoded) =>
        /\ Len(Only(result.v.calls, "visit_tx_ins")) = 2
        /\ Only(result.v.calls, "visit_tx_ins")[1].index = 0
        /\ Only(result.v.calls, "visit_tx_ins")[2].index = InputCount(input)
        /\ Len(Only(result.v.calls, "visit_tx_outs")) = 1

\* ------------------------------------------------------------------------
\* Properties of the iterator over TxOuts (SpecIter)
\* ------------------------------------------------------------------------

\* C17: an iterator made by iter() on successfully parsed outputs of count n
\* returns, call after call of next(), the n views passed to visit_tx_out(0, .)
\* .. visit_tx_out(n - 1, .) during the parse, then None; this holds of every
\* iterator iter() makes, the second as the first.
C17_Iterator ==
    pc = "iterating" =>
        LET calls == result.v.calls
            n == result.parsed.n
        IN  /\ Len(calls) = n + 1
            /\ again.it.elements = n
            /\ \A j \in 1..Len(again.items) :
                    again.items[j] =
                        IF j <= n
                        THEN Item(calls[j + 1].arg)
                        ELSE NoItem

\* The second iterator over two outputs gave both and then None
C17_Witness ==
    /\ pc = "iterating"
    /\ counter = 2
    /\ result.parsed.n = 2
    /\ Len(again.items) = 3
    /\ again.items[2].some
    /\ again.items[1] # again.items[2]
    /\ ~again.items[3].some

\* How many items next() gave so far
Yielded == Cardinality({j \in 1..Len(again.items) : again.items[j].some})

\* C30: at every point of an iteration over a successfully parsed TxOuts,
\* size_hint() returns (k, Some(k)) where k is the number of items next()
\* will still yield: n() before the first next(), one less per item, 0 once
\* next() returned None.
C30_SizeHintExact ==
    pc = "iterating" =>
        TxOutIterator_size_hint(again.it) =
            <<result.parsed.n - Yielded, Some(result.parsed.n - Yielded)>>

\* Of two outputs next() gave the first, and size_hint() is still (2, Some(2))
C30_Witness ==
    /\ pc = "iterating"
    /\ result.parsed.n = 2
    /\ Len(again.items) = 1
    /\ again.items[1].some
    /\ TxOutIterator_size_hint(again.it) = <<2, Some(2)>>

\* size_hint() is (n(), Some(n())) during the whole iteration
C30_SizeHintConstant ==
    pc = "iterating" =>
        TxOutIterator_size_hint(again.it) = <<result.parsed.n, Some(result.parsed.n)>>

\* ------------------------------------------------------------------------
\* Properties of the parse of a prefix (SpecPrefix)
\* ------------------------------------------------------------------------

C19_InsertedIsPresent ==
    (pc = "got" /\ result.ret.ok /\ again.key = result.key) =>
        again.got = Some(ValueOf(result.key))

\* insert returned Ok(2): it removed the one older entry and then the entry
\* it had just made, and get finds no entry under the key
C19_Witness ==
    /\ pc = "got"
    /\ result.ret = Inserted(2)
    /\ again.key = result.key
    /\ again.got = None
    /\ cache.insertions = <<>>

\* No byte of the buffer is in the range of two keys of indexes
RangesDisjoint ==
    \A k1, k2 \in Keys :
        (k1 # k2 /\ cache.indexes[k1].some /\ cache.indexes[k2].some) =>
            \A i \in 0..(Len(cache.buffer) - 1) :
                ~ /\ cache.indexes[k1].get.begin <= i /\ i < cache.indexes[k1].get.end
                  /\ cache.indexes[k2].get.begin <= i /\ i < cache.indexes[k2].get.end

\* C20: after any inserts of values of 0 to BufferSize bytes, get returns for
\* each key of indexes the bytes inserted under it, and the ranges of two keys
\* of indexes share no byte of the buffer.
C20_PresentIsIntact ==
    entry = "SliceCache" =>
        /\ \A key \in Keys :
                SliceCache_get(cache, key).some =>
                    SliceCache_get(cache, key) = Some(ValueOf(key))
        /\ RangesDisjoint

\* An entry of no byte is the oldest one; the insert of BufferSize bytes went
\* over a 1-byte entry that is still in indexes, and get returns for it a
\* byte of the newer value
C20_Witness ==
    /\ pc = "inserted"
    /\ result.ret = Inserted(0)
    /\ Len(ValueOf(result.key)) = BufferSize
    /\ \E key \in Keys :
          /\ key # result.key
          /\ SliceCache_get(cache, key) = Some(<<result.key>>)
    /\ cache.indexes[cache.insertions[Len(cache.insertions)]].get
          = [begin |-> 0, end |-> 0]

\* C22: insert of a key that is in the cache returns Err(ValueAlreadyPresent)
\* and insert of a value longer than the buffer Err(ValueLargerThanBuffer);
\* an insert that returns Err leaves buffer, free_pointer, indexes, insertions
\* and full as they were, so get returns for every key what it returned.
C22_FailedInsert ==
    [][pc' = "inserted" =>
        /\ cache.indexes[result'.key].some
                => result'.ret = NotInserted(ValueAlreadyPresent)
        /\ Len(ValueOf(result'.key)) > Len(cache.buffer)
                => result'.ret = NotInserted(ValueLargerThanBuffer)
        /\ ~result'.ret.ok =>
                /\ cache' = cache
                /\ \A key \in Keys :
                        SliceCache_get(cache', key) = SliceCache_get(cache, key)
        /\ result'.ret.ok =>
                /\ ~cache.indexes[result'.key].some
                /\ Len(ValueOf(result'.key)) <= Len(cache.buffer)]_vars

\* A value longer than the buffer was refused by a cache that has restarted
\* from the beginning and holds two entries
C22_Witness ==
    /\ entry = "SliceCache"
    /\ pc = "inserted"
    /\ result.ret = NotInserted(ValueLargerThanBuffer)
    /\ cache.full
    /\ cache.free_pointer > 0
    /\ Len(cache.insertions) = 2

\* A key of the cache was refused
C22_WitnessPresent ==
    /\ entry = "SliceCache"
    /\ pc = "inserted"
    /\ result.ret = NotInserted(ValueAlreadyPresent)
    /\ SliceCache_get(cache, result.key) = Some(ValueOf(result.key))
    /\ Len(cache.insertions) = 2

\* ------------------------------------------------------------------------
\* Properties of the cache and the caller's log (SpecCacheLogged)
\* ------------------------------------------------------------------------

\* How many of the logged inserts have not been removed
Kept == Len(log.inserted) - log.total_removed

\* The i-th most recent key of the log
Recent(i) == log.inserted[Len(log.inserted) - i + 1]

\* C21: after any inserts that returned Ok the keys of the cache are the
\* most recently inserted ones, in number the inserts minus the sum of the
\* numbers insert returned: insertions lists them newest first and indexes
\* holds them and no other, so no key leaves while an older one stays.
C21_Fifo ==
    entry = "SliceCache" =>
        /\ Kept >= 0
        /\ Len(cache.insertions) = Kept
        /\ \A i \in 1..Kept : cache.insertions[i] = Recent(i)
        /\ \A key \in Keys :
                cache.indexes[key].some <=> \E i \in 1..Kept : Recent(i) = key

\* Five inserts, the last one past the end of the buffer, left two keys
C21_Witness ==
    /\ pc = "inserted"
    /\ Len(log.inserted) = 5
    /\ log.total_removed = 3
    /\ cache.full
    /\ result.ret.ok
    /\ result.ret.removed >= 1
    /\ Len(cache.insertions) = 2

\* C23: while the values inserted, the one of the current insert included,
\* add up to less than the size of the buffer, an insert that is not refused
\* returns Ok(0), has removed nothing, and get returns its value for every key
\* inserted so far.
C23_NoRemovalBelowSize ==
    (/\ pc = "inserted"
     /\ result.ret.ok
     /\ log.bytes_written < Len(cache.buffer)) =>
        /\ result.ret = Inserted(0)
        /\ log.total_removed = 0
        /\ ~cache.full
        /\ Len(cache.insertions) = Len(log.inserted)
        /\ \A i \in 1..Len(log.inserted) :
                SliceCache_get(cache, log.inserted[i]) = Some(ValueOf(log.inserted[i]))

\* Three values of 0, 1 and 2 bytes are in a buffer of BufferSize bytes or more
C23_Witness ==
    /\ pc = "inserted"
    /\ result.ret = Inserted(0)
    /\ Len(log.inserted) = 3
    /\ log.bytes_written = 3
    /\ log.bytes_written < Len(cache.buffer)
    /\ cache.free_pointer = 3

====
